---- MODULE Spec2Model ----
(***************************************************************************)
(* Verification model of the F1 Hub data integration layer (f1_data.py):   *)
(* the token-bucket RateLimiter, the retrying fetchers fetch_openf1 and    *)
(* fetch_ergast with the OpenF1 semaphore, the TTL cache, and the          *)
(* live/demo session resolver, the live views and the dashboard, the       *)
(* positions merge, the track outline and the tyre degradation fit.        *)
(*                                                                         *)
(* Each subsystem has its own specification over the shared variables:     *)
(*   SpecRL     RateLimiter.acquire under concurrent callers               *)
(*   SpecBurst  burst+1 acquire() calls issued together on a full bucket   *)
(*   SpecFetch  fetch_openf1 / fetch_ergast retry loops and the semaphore  *)
(*   SpecCache  cache_get / cache_set / cache_clear with the TTL table     *)
(*   SpecRes    get_fallback_session_key / set_demo_session                *)
(*   SpecTrip   SpecRes with the history of the last override round trip   *)
(*   SpecQuery  SpecRes with the history of the "latest" queries sent      *)
(*   SpecLive   get_live_session / get_live_positions / get_live_dashboard *)
(*   SpecMerge  the per-driver merge of get_live_positions                 *)
(*   SpecOutline  _get_track_outline with its memory and disk caches       *)
(*   SpecDeg    one stint of get_live_tyre_degradation                     *)
(*   SpecEnrich the tyre age of get_live_positions and get_live_dashboard  *)
(*   SpecWeather  the record get_live_weather reports                      *)
(***************************************************************************)
EXTENDS Integers, Sequences, FiniteSets, TLC

VARIABLES
    \* ---- RateLimiter (f1_data.py:57-81) ----
    tokens,        \* self.tokens, in units of 1/TokenScale token
    last_refill,   \* self.last_refill, in limiter ticks
    lock_holder,   \* self._lock: 0 when free, else the caller inside it
    lock_waiters,  \* FIFO queue of callers suspended on self._lock
    rl_pc,         \* per caller: "idle" | "waitlock" | "refilled" | "sleeping"
    wake_at,       \* per caller: earliest tick asyncio.sleep(wait) may end
    mono,          \* time.monotonic(), in limiter ticks
    ret_count,     \* history: number of acquire() returns at each tick
    \* ---- fetch_openf1 / fetch_ergast (f1_data.py:84, 260-337) ----
    sem_value,     \* _openf1_semaphore._value: free permits
    f_pc,          \* per task: "idle" | "wait_sem" | "wait_token" | "get" |
                   \*   "sleep" | "sleep429" | "reacquire"
    f_kind,        \* per task: "openf1" | "ergast", the fetcher it is running
    f_attempt,     \* per task: the loop variable `attempt`
    f_gets,        \* per task: GETs issued by the current call
    f_acq,         \* per task: limiter tokens acquired by the current call
    f_wait,        \* per task: duration passed to the current asyncio.sleep
    f_ret,         \* the call that has just ended (NoRet when none)
    \* ---- cache (f1_data.py:88-112) ----
    _cache,        \* _cache: key -> [data, time], or Absent
    wall,          \* time.time() / datetime.utcnow(), in seconds
    hist,          \* history: the cache operations performed, in order
    \* ---- session resolver (f1_data.py:128-238) ----
    _demo_override_key,  \* the override; "None" stands for Python's None
    res_pc,        \* per task: "idle" | "fetch_override" | "fetch_latest"
    res_req,       \* per task: session_key sent with the override's fetch
    res_ret,       \* the resolution that has just returned (NoRes when none)
    up_latest,     \* the session the upstream reports as "latest"
    adv,           \* number of wall-clock jumps taken in SpecRes
    \* ---- history of the resolver (ghost variables) ----
    trip,          \* the last automatic resolution and the override set and
                   \* cleared since (SpecTrip)
    q_sent,        \* when the last "latest" queries were sent (SpecQuery)
    \* ---- live views (f1_data.py:917-1305, 1464-1500) ----
    lv,            \* the view request in progress
    lv_ret,        \* the view that has just been returned (NoView when none)
    lv_n,          \* number of view requests made so far
    \* ---- get_live_positions: latest position per driver (994-1054) ----
    positions_raw, \* the records received from the upstream
    m_i,           \* number of records the loop has consumed
    latest_pos,    \* the dict, as its entries in insertion order
    m_result,      \* the positions of the response (NoResult while looping)
    \* ---- _get_track_outline (1912-1993) ----
    o_task,        \* per task: where its call of _get_track_outline stands
    o_disk,        \* the file TRACK_CACHE_DIR/<session_key>.json
    o_loc,         \* number of "location" fetches sent to the upstream
    o_writes,      \* number of times the file has been written
    o_hist,        \* history: the calls that returned, in order
    \* ---- get_live_tyre_degradation: one stint of one driver (1831-1894) ----
    d_laps,        \* driver_laps[dn] sorted by lap, times in ms
    d_stint,       \* the stint: [lap_start, lap_end], 0 for a missing bound
    d_total,       \* total_laps
    d_pc,          \* "select" | "filter" | "fit" | "done"
    d_clean,       \* clean_laps
    d_filtered,    \* filtered
    d_result,      \* the stint's entry of stint_results (NoStint when skipped)
    \* ---- get_live_dashboard: tyre age (1026-1048, 1477-1486) ----
    e_stints,      \* per position record, in order: its driver's latest stint
    e_timing,      \* timing["timing"] as driver_number -> lap_number
    e_pc,          \* "build" | "guard" | "loop" | "done"
    e_built,       \* history: positions["positions"] as get_live_positions
                   \* built it from the stints
    e_positions,   \* positions["positions"]: the object in the cache, which
                   \* the dashboard mutates
    e_i,           \* position records the dashboard's loop has visited
    e_n,           \* dashboard requests made so far
    \* ---- get_live_weather: the record reported (1181-1201) ----
    w_data,        \* the records fetch_openf1("weather") returned, as received
    w_pc,          \* "fetched" | "done"
    w_response     \* response["weather"] (NoWeather before the view is built)

rl_vars == <<tokens, last_refill, lock_holder, lock_waiters, rl_pc, wake_at,
             mono, ret_count>>

fetch_vars == <<sem_value, f_pc, f_kind, f_attempt, f_gets, f_acq, f_wait,
                f_ret>>

cache_vars == <<_cache, wall, hist>>

res_vars == <<_demo_override_key, res_pc, res_req, res_ret, up_latest, adv>>

ghost_vars == <<trip, q_sent>>

live_vars == <<lv, lv_ret, lv_n>>

merge_vars == <<positions_raw, m_i, latest_pos, m_result>>

outline_vars == <<o_task, o_disk, o_loc, o_writes, o_hist>>

deg_vars == <<d_laps, d_stint, d_total, d_pc, d_clean, d_filtered, d_result>>

\* The state of the computations that touch no shared state.
enrich_vars == <<e_stints, e_timing, e_pc, e_built, e_positions, e_i,
                 e_n>>

weather_vars == <<w_data, w_pc, w_response>>

calc_vars == <<deg_vars, enrich_vars, weather_vars>>

\* The state shared through the module globals of f1_data.py.
base_vars == <<rl_vars, fetch_vars, cache_vars, res_vars, ghost_vars,
               live_vars, merge_vars, outline_vars>>

\* What the resolver's actions leave to the specification that runs them.
aux_vars == <<ghost_vars, live_vars>>

vars == <<base_vars, calc_vars>>

\* What each subsystem's actions leave alone.
not_rl == <<fetch_vars, cache_vars, res_vars, ghost_vars, live_vars,
           merge_vars, outline_vars, calc_vars>>

not_fetch == <<rl_vars, cache_vars, res_vars, ghost_vars, live_vars,
           merge_vars, outline_vars, calc_vars>>

not_cache == <<rl_vars, fetch_vars, res_vars, ghost_vars, live_vars,
           merge_vars, outline_vars, calc_vars>>

\* The resolver reads and writes the cache and reads the wall clock.
not_res == <<rl_vars, fetch_vars, hist, merge_vars, outline_vars,
            calc_vars>>

------------------------------------------------------------------------------
(* Generic helpers                                                          *)

Min(a, b) == IF a <= b THEN a ELSE b

Max(a, b) == IF a >= b THEN a ELSE b

RECURSIVE SumTo(_, _, _)
\* Sum of f[i] for i in lo..hi.
SumTo(f, lo, hi) == IF lo > hi THEN 0 ELSE f[lo] + SumTo(f, lo + 1, hi)

------------------------------------------------------------------------------
(* RateLimiter: _ergast_limiter = RateLimiter(rate=3.5, burst=4)            *)
(*                                                                          *)
(* rate = 3.5 = 7/2 tokens per second.  Time is counted in limiter ticks of *)
(* 1/7 s and tokens in halves (TokenScale = 2), so that elapsed * rate and  *)
(* (1 - tokens) / rate are exact integers: one tick refills one half token. *)

Burst == 4

TokenScale == 2

RateScaled == 7      \* rate * TokenScale, scaled tokens per second

TicksPerSec == RateScaled

BurstScaled == Burst * TokenScale

OneToken == TokenScale

NumCallers == 2      \* concurrent callers of acquire() in SpecRL

MaxMono == 5         \* horizon of the monotonic clock, in ticks

Callers == 1..NumCallers

BurstCallers == 1..(Burst + 1)

\* self.tokens + elapsed * self.rate, capped at self.burst (line 70)
RLRefillUncapped(tok, elapsed) == tok + (elapsed * RateScaled) \div TicksPerSec

RLRefill(tok, elapsed) ==
    Min(BurstScaled, tok + (elapsed * RateScaled) \div TicksPerSec)

RLWaitNone(tok) == 0

\* wait = (1 - self.tokens) / self.rate, in ticks (line 74)
RLWait(tok) == ((OneToken - tok) * TicksPerSec) \div RateScaled

RLInitCommon(cs) ==
    /\ tokens = BurstScaled
    /\ last_refill = 0
    /\ lock_holder = 0
    /\ mono = 0
    /\ wake_at = [c \in cs |-> 0]
    /\ ret_count = [t \in 0..(MaxMono + 1) |-> 0]

\* State after RateLimiter.__init__ (lines 59-64); nobody has called yet.
RLInit ==
    /\ RLInitCommon(Callers)
    /\ lock_waiters = <<>>
    /\ rl_pc = [c \in Callers |-> "idle"]

\* Burst+1 tasks have all called acquire() at the instant of construction.
RLBurstInit ==
    /\ RLInitCommon(BurstCallers)
    /\ lock_waiters = [i \in 1..(Burst + 1) |-> i]
    /\ rl_pc = [c \in BurstCallers |-> "waitlock"]

RLReturned == [ret_count EXCEPT ![mono] = @ + 1]

\* A task calls acquire() and queues on `async with self._lock` (line 67).
RLCall(c) ==
    /\ rl_pc[c] = "idle"
    /\ rl_pc' = [rl_pc EXCEPT ![c] = "waitlock"]
    /\ lock_waiters' = Append(lock_waiters, c)
    /\ UNCHANGED <<tokens, last_refill, lock_holder, wake_at, mono, ret_count>>
    /\ UNCHANGED not_rl

\* The first waiter takes the lock and refills the bucket (lines 67-71).
RLEnter ==
    /\ lock_holder = 0
    /\ lock_waiters # <<>>
    /\ LET c == Head(lock_waiters)
       IN  /\ lock_waiters' = Tail(lock_waiters)
           /\ lock_holder' = c
           /\ rl_pc' = [rl_pc EXCEPT ![c] = "refilled"]
    /\ tokens' = RLRefill(tokens, mono - last_refill)
    /\ last_refill' = mono
    /\ UNCHANGED <<wake_at, mono, ret_count>>
    /\ UNCHANGED not_rl

\* Lines 73-78, run without suspension after the refill: with less than one
\* token start sleeping (the lock is kept), else take a token, release the
\* lock and return.
RLTake(c) ==
    /\ rl_pc[c] = "refilled"
    /\ lock_holder = c
    /\ IF tokens < OneToken
       THEN /\ rl_pc' = [rl_pc EXCEPT ![c] = "sleeping"]
            /\ wake_at' = [wake_at EXCEPT ![c] = mono + RLWait(tokens)]
            /\ UNCHANGED <<tokens, lock_holder, ret_count>>
       ELSE /\ tokens' = tokens - OneToken
            /\ lock_holder' = 0
            /\ rl_pc' = [rl_pc EXCEPT ![c] = "idle"]
            /\ ret_count' = RLReturned
            /\ UNCHANGED wake_at
    /\ UNCHANGED <<last_refill, lock_waiters, mono>>
    /\ UNCHANGED not_rl

\* asyncio.sleep(wait) is over (not before wake_at): line 76 sets tokens to 0,
\* the lock is released and acquire() returns.  last_refill is not touched.
RLWake(c) ==
    /\ rl_pc[c] = "sleeping"
    /\ lock_holder = c
    /\ mono >= wake_at[c]
    /\ tokens' = 0
    /\ lock_holder' = 0
    /\ rl_pc' = [rl_pc EXCEPT ![c] = "idle"]
    /\ ret_count' = RLReturned
    /\ UNCHANGED <<last_refill, lock_waiters, wake_at, mono>>
    /\ UNCHANGED not_rl

\* The monotonic clock advances by one tick.  Lines 68-78 contain no
\* suspension point up to the sleep, so they run at one instant: the clock does
\* not advance while a caller is between its refill and its take.
RLTick ==
    /\ mono < MaxMono
    /\ \A c \in DOMAIN rl_pc : rl_pc[c] # "refilled"
    /\ mono' = mono + 1
    /\ UNCHANGED <<tokens, last_refill, lock_holder, lock_waiters, rl_pc,
                   wake_at, ret_count>>
    /\ UNCHANGED not_rl

RLNext ==
    \/ \E c \in Callers : RLCall(c)
    \/ RLEnter
    \/ \E c \in Callers : RLTake(c)
    \/ \E c \in Callers : RLWake(c)
    \/ RLTick

RLBurstNext ==
    \/ RLEnter
    \/ \E c \in BurstCallers : RLTake(c)
    \/ \E c \in BurstCallers : RLWake(c)
    \/ RLTick

------------------------------------------------------------------------------
(* Retrying fetchers: fetch_openf1 (lines 260-298), fetch_ergast (301-337)  *)

SemSize == 3         \* asyncio.Semaphore(3)

Retries == 2         \* retries: int = 2

RetryDelay == 1      \* retry_delay: float = 1.0, seconds

BackoffCap == 10     \* min(..., 10)

MaxErgast == 1       \* fetch_ergast calls in flight together

\* One more task than the semaphore has permits; each call of a task is a
\* fetch_openf1 or a fetch_ergast.
Tasks == 1..(SemSize + 1)

\* The calls of task p's siblings that are in flight.
InFlight(p, k) == {q \in Tasks \ {p} : f_pc[q] # "idle" /\ f_kind[q] = k}

\* What one GET can come back with: HTTP 200 with a well-formed payload, HTTP
\* 200 whose JSON lacks the expected field, HTTP 200 whose body is not the
\* expected JSON, HTTP 429, another non-200 status, httpx.RequestError/timeout.
Outcomes == {"ok200", "nofield200", "bad200", "s429", "other", "neterr"}

NoRet == [kind |-> "none"]

RECURSIVE Pow2(_)
Pow2(n) == IF n = 0 THEN 1 ELSE 2 * Pow2(n - 1)

\* wait = min(retry_delay * (2 ** attempt), 10) (lines 282, 320)
Wait429(a) == Min(RetryDelay * Pow2(a), BackoffCap)

\* await asyncio.sleep(retry_delay) after another non-200 status (289, 328)
WaitOther(a) == RetryDelay

\* await asyncio.sleep(retry_delay * (attempt + 1)) after an error (295, 334)
WaitError(a) == RetryDelay * (a + 1)

\* if attempt < retries (lines 288, 294, 327, 333)
RetryLeft(a) == a < Retries

LoopForever(a) == TRUE

\* `for attempt in range(retries + 1)` has an iteration after attempt a.
LoopContinues(a) == a + 1 < Retries + 1

SemAlways(v) == TRUE

\* asyncio.Semaphore.acquire() proceeds without waiting while _value > 0.
SemHasPermit(v) == v > 0

\* Leaving `async with _openf1_semaphore` (normally or by an exception)
\* releases the permit; fetch_ergast holds none.
SemAfterExit(k, v) == IF k = "openf1" THEN v + 1 ELSE v

\* resp.json() and, in fetch_ergast, .get("MRData", {}) on a 200 response:
\* the value returned, or "raise" when the expression raises (JSONDecodeError,
\* AttributeError: neither is an httpx.RequestError, so nothing catches it).
ParseBody(k, o) ==
    CASE o = "ok200" -> "data"
      [] o = "nofield200" -> IF k = "ergast" THEN "empty" ELSE "data"
      [] o = "bad200" -> "raise"

FetchInit ==
    /\ sem_value = SemSize
    /\ f_pc = [p \in Tasks |-> "idle"]
    /\ f_kind = [p \in Tasks |-> "none"]
    /\ f_attempt = [p \in Tasks |-> 0]
    /\ f_gets = [p \in Tasks |-> 0]
    /\ f_acq = [p \in Tasks |-> 0]
    /\ f_wait = [p \in Tasks |-> 0]
    /\ f_ret = NoRet

\* The call of task p ends: the record of how it ended, the permit released,
\* the task idle again.
FEnd(p, res, last) ==
    /\ f_ret' = [kind |-> f_kind[p], task |-> p, result |-> res, last |-> last,
                 gets |-> f_gets[p], acq |-> f_acq[p]]
    /\ sem_value' = SemAfterExit(f_kind[p], sem_value)
    /\ f_pc' = [f_pc EXCEPT ![p] = "idle"]
    /\ f_attempt' = [f_attempt EXCEPT ![p] = 0]
    /\ f_gets' = [f_gets EXCEPT ![p] = 0]
    /\ f_acq' = [f_acq EXCEPT ![p] = 0]
    /\ f_wait' = [f_wait EXCEPT ![p] = 0]
    /\ f_kind' = [f_kind EXCEPT ![p] = "none"]

\* Task p starts loop iteration a: `await client.get(...)` sends a GET.
FIssueGet(p, a) ==
    /\ f_pc' = [f_pc EXCEPT ![p] = "get"]
    /\ f_attempt' = [f_attempt EXCEPT ![p] = a]
    /\ f_gets' = [f_gets EXCEPT ![p] = @ + 1]
    /\ f_wait' = [f_wait EXCEPT ![p] = 0]

\* `continue` at the end of iteration f_attempt[p]: the next iteration if the
\* range has one, else the `return None` after the loop.
FContinue(p, last) ==
    IF LoopContinues(f_attempt[p])
    THEN /\ FIssueGet(p, f_attempt[p] + 1)
         /\ UNCHANGED <<sem_value, f_kind, f_acq, f_ret>>
    ELSE FEnd(p, "None", last)

\* fetch_openf1 is called: with a free permit the task enters the guarded
\* section and sends its first GET, else it suspends on the semaphore.
\* (The two fetchers share no state, the one never touches the limiter and the
\* other never the semaphore, so their calls are explored one kind at a time.)
FCallOpenF1(p) ==
    /\ f_ret = NoRet
    /\ f_pc[p] = "idle"
    /\ InFlight(p, "ergast") = {}
    /\ f_kind' = [f_kind EXCEPT ![p] = "openf1"]
    /\ IF SemHasPermit(sem_value)
       THEN /\ sem_value' = sem_value - 1
            /\ FIssueGet(p, 0)
       ELSE /\ f_pc' = [f_pc EXCEPT ![p] = "wait_sem"]
            /\ UNCHANGED <<sem_value, f_attempt, f_gets, f_wait>>
    /\ UNCHANGED <<f_acq, f_ret>>
    /\ UNCHANGED not_fetch

\* A task suspended on the semaphore is woken once a permit is free.
FSemWake(p) ==
    /\ f_ret = NoRet
    /\ f_pc[p] = "wait_sem"
    /\ SemHasPermit(sem_value)
    /\ sem_value' = sem_value - 1
    /\ FIssueGet(p, 0)
    /\ UNCHANGED <<f_kind, f_acq, f_ret>>
    /\ UNCHANGED not_fetch

\* fetch_ergast is called: `await _ergast_limiter.acquire()` (line 310).
FCallErgast(p) ==
    /\ f_ret = NoRet
    /\ f_pc[p] = "idle"
    /\ InFlight(p, "openf1") = {}
    /\ Cardinality(InFlight(p, "ergast")) < MaxErgast
    /\ f_kind' = [f_kind EXCEPT ![p] = "ergast"]
    /\ f_pc' = [f_pc EXCEPT ![p] = "wait_token"]
    /\ UNCHANGED <<sem_value, f_attempt, f_gets, f_acq, f_wait, f_ret>>
    /\ UNCHANGED not_fetch

\* The limiter's acquire() returns: before the loop (line 310) the first GET
\* follows; after a 429 (line 323) the `continue` follows.
FTokenAcquired(p) ==
    /\ f_ret = NoRet
    /\ f_pc[p] \in {"wait_token", "reacquire"}
    /\ IF f_pc[p] = "wait_token"
       THEN /\ FIssueGet(p, 0)
            /\ f_acq' = [f_acq EXCEPT ![p] = @ + 1]
            /\ UNCHANGED <<sem_value, f_kind, f_ret>>
       ELSE IF LoopContinues(f_attempt[p])
            THEN /\ FIssueGet(p, f_attempt[p] + 1)
                 /\ f_acq' = [f_acq EXCEPT ![p] = @ + 1]
                 /\ UNCHANGED <<sem_value, f_kind, f_ret>>
            ELSE /\ f_ret' = [kind |-> f_kind[p], task |-> p, result |-> "None",
                              last |-> "s429", gets |-> f_gets[p],
                              acq |-> f_acq[p] + 1]
                 /\ f_pc' = [f_pc EXCEPT ![p] = "idle"]
                 /\ f_attempt' = [f_attempt EXCEPT ![p] = 0]
                 /\ f_gets' = [f_gets EXCEPT ![p] = 0]
                 /\ f_acq' = [f_acq EXCEPT ![p] = 0]
                 /\ f_wait' = [f_wait EXCEPT ![p] = 0]
                 /\ f_kind' = [f_kind EXCEPT ![p] = "none"]
                 /\ UNCHANGED sem_value
    /\ UNCHANGED not_fetch

\* The GET of task p comes back with outcome o (lines 276-296, 316-335).
FResponse(p, o) ==
    /\ f_ret = NoRet
    /\ f_pc[p] = "get"
    /\ CASE o \in {"ok200", "nofield200", "bad200"} ->
              FEnd(p, ParseBody(f_kind[p], o), o)
         [] o = "s429" ->
              /\ f_pc' = [f_pc EXCEPT ![p] = "sleep429"]
              /\ f_wait' = [f_wait EXCEPT ![p] = Wait429(f_attempt[p])]
              /\ UNCHANGED <<sem_value, f_kind, f_attempt, f_gets, f_acq, f_ret>>
         [] o = "other" ->
              IF RetryLeft(f_attempt[p])
              THEN /\ f_pc' = [f_pc EXCEPT ![p] = "sleep"]
                   /\ f_wait' = [f_wait EXCEPT ![p] = WaitOther(f_attempt[p])]
                   /\ UNCHANGED <<sem_value, f_kind, f_attempt, f_gets, f_acq,
                                  f_ret>>
              ELSE FEnd(p, "None", o)
         [] o = "neterr" ->
              IF RetryLeft(f_attempt[p])
              THEN /\ f_pc' = [f_pc EXCEPT ![p] = "sleep"]
                   /\ f_wait' = [f_wait EXCEPT ![p] = WaitError(f_attempt[p])]
                   /\ UNCHANGED <<sem_value, f_kind, f_attempt, f_gets, f_acq,
                                  f_ret>>
              ELSE FContinue(p, o)
    /\ UNCHANGED not_fetch

\* asyncio.sleep(...) of task p is over.  After a 429 fetch_ergast re-acquires
\* a token first (line 323); every other case goes on with `continue`.
FWake(p) ==
    /\ f_ret = NoRet
    /\ f_pc[p] \in {"sleep", "sleep429"}
    /\ IF f_pc[p] = "sleep429" /\ f_kind[p] = "ergast"
       THEN /\ f_pc' = [f_pc EXCEPT ![p] = "reacquire"]
            /\ UNCHANGED <<sem_value, f_kind, f_attempt, f_gets, f_acq, f_wait,
                           f_ret>>
       ELSE FContinue(p, IF f_pc[p] = "sleep429" THEN "s429" ELSE "retry")
    /\ UNCHANGED not_fetch

\* The caller takes the result (or the exception) of the call that ended.
FReturn ==
    /\ f_ret # NoRet
    /\ f_ret' = NoRet
    /\ UNCHANGED <<sem_value, f_pc, f_kind, f_attempt, f_gets, f_acq, f_wait>>
    /\ UNCHANGED not_fetch

FetchNext ==
    \/ \E p \in Tasks : FCallOpenF1(p)
    \/ \E p \in Tasks : FSemWake(p)
    \/ \E p \in Tasks : FCallErgast(p)
    \/ \E p \in Tasks : FTokenAcquired(p)
    \/ \E p \in Tasks : \E o \in Outcomes : FResponse(p, o)
    \/ \E p \in Tasks : FWake(p)
    \/ FReturn


------------------------------------------------------------------------------
(* Cache: cache_get / cache_set / cache_clear (lines 88-112)                *)
(*                                                                          *)
(* A key is a string, modelled as the sequence of its pieces, cut so that   *)
(* every prefix and every category used is a whole number of pieces:        *)
(* "live_positions:latest" is <<"live_", "positions", ":", "latest">>.      *)

K_fallback == <<"_fallback", "_resolved">>

K_pos_latest == <<"live_", "positions", ":", "latest">>

K_pos_demo == <<"live_", "positions", ":", "9839">>

CacheKeys == {K_fallback, K_pos_latest, K_pos_demo}

\* f"demo_info:{_demo_override_key}"
K_demo_info(k) == <<"demo_info", ":", k>>

\* Session keys an operator pins with set_demo_session.
OverrideKeys == {"9839"}

\* What an operator passes to set_demo_session (api.py:914-925).
SetInputs == OverrideKeys \cup {"None", "auto", "Auto"}

\* f"live_{cat}:{_session_key}"
K_live(cat, key) == <<"live_", cat, ":", key>>

\* The live views modelled: get_live_session and get_live_positions (the
\* timing, weather, race-control, radio and pit-stop views have the code of
\* get_live_positions up to the name of the category).
LiveCats == {"session", "positions"}

\* Values an operator pins in SpecLive.
LiveSetInputs == {"9839", "latest", "None"}

\* Session keys the resolver hands to a view: str(None) for a None key.
LiveKeys == {"latest", "9839", "9858", "None"}

\* f"track_outline:{session_key}" for the session of SpecOutline.
K_outline == <<"track_outline", ":", "9858">>

Keys ==
    CacheKeys \cup {K_outline} \cup
    {K_demo_info(k) : k \in SetInputs \cup LiveSetInputs}
              \cup {K_live(c, k) : c \in LiveCats, k \in LiveKeys}

\* Values stored by the cache operations of SpecCache.
CacheData == {[v |-> "a"], [v |-> "b"]}

None == [none |-> TRUE]

Absent == [absent |-> TRUE]

MaxOps == 4          \* cache operations and clock advances in SpecCache

\* Seconds the wall clock may jump between two operations.
ClockSteps == {10, 290}

\* CACHE_TTL of config.py (lines 25-53), by category.
CACHE_TTL ==
    (<<"live_", "positions">> :> 10) @@ (<<"live_", "timing">> :> 10) @@
    (<<"live_", "weather">> :> 60) @@ (<<"live_", "race_control">> :> 10) @@
    (<<"live_", "radio">> :> 15) @@ (<<"live_", "pit_stops">> :> 10) @@
    (<<"live_", "tyres">> :> 15) @@ (<<"live_", "session">> :> 30) @@
    (<<"schedule">> :> 3600) @@ (<<"leaderboard">> :> 300) @@
    (<<"news">> :> 900) @@ (<<"demo_sessions">> :> 3600) @@
    (<<"track_outline">> :> 3600)

DefaultTTL == 300    \* CACHE_TTL.get(..., 300)

StartsWithNothing(k, p) == FALSE

\* str.startswith
StartsWith(k, p) == Len(p) <= Len(k) /\ SubSeq(k, 1, Len(p)) = p

\* key.split(":")[0]
Category(k) ==
    LET colons == {i \in 1..Len(k) : k[i] = ":"}
    IN  IF colons = {} THEN k
        ELSE SubSeq(k, 1, (CHOOSE i \in colons : \A j \in colons : i <= j) - 1)

\* CACHE_TTL.get(key.split(":")[0], 300)
TableTTL(k) ==
    IF Category(k) \in DOMAIN CACHE_TTL THEN CACHE_TTL[Category(k)]
    ELSE DefaultTTL

TTLIgnoringOverride(k, ovr) == TableTTL(k)

\* ttl_override or CACHE_TTL.get(...): a ttl_override of None or 0 is falsy;
\* both are modelled as 0.
EffectiveTTL(k, ovr) == IF ovr # 0 THEN ovr ELSE TableTTL(k)

FreshInclusive(age, ttl) == age <= ttl

\* time.time() - entry["time"] < ttl
Fresh(age, ttl) == age < ttl

\* cache_get (lines 91-98): the value returned.
cache_get(c, k, ovr, now) ==
    IF c[k] # Absent /\ Fresh(now - c[k].time, EffectiveTTL(k, ovr))
    THEN c[k].data
    ELSE None

\* cache_set (lines 101-103): the new cache.
cache_set(c, k, d, now) == [c EXCEPT ![k] = [data |-> d, time |-> now]]

cache_clear_all(c, p) == [k \in DOMAIN c |-> Absent]

\* cache_clear (lines 106-112): the new cache.  An empty prefix stands for
\* None and "", both falsy.
cache_clear(c, p) ==
    IF p # <<>>
    THEN [k \in DOMAIN c |-> IF StartsWith(k, p) THEN Absent ELSE c[k]]
    ELSE [k \in DOMAIN c |-> Absent]

\* The reads of the layer on the keys of SpecCache, each with the override
\* its call site passes: get_live_positions in live mode (none) and in demo
\* mode (300), get_fallback_session_key (60).
ReadSites == {<<K_pos_latest, 0>>, <<K_pos_demo, 300>>, <<K_fallback, 60>>}

\* Prefixes passed to cache_clear: none (api.py:1019), "_fallback" and "live_"
\* (set_demo_session), "leaderboard" (api.py:1009).
ClearPrefixes == {<<>>, <<"_fallback">>, <<"live_">>, <<"leaderboard">>}

CacheInit ==
    /\ _cache = [k \in Keys |-> Absent]
    /\ wall = 0
    /\ hist = <<>>

CacheSetOp(k, d) ==
    /\ Len(hist) < MaxOps
    /\ _cache' = cache_set(_cache, k, d, wall)
    /\ hist' = Append(hist, [op |-> "set", key |-> k, data |-> d, at |-> wall])
    /\ UNCHANGED wall
    /\ UNCHANGED not_cache

CacheGetOp(k, ovr) ==
    /\ Len(hist) < MaxOps
    /\ hist' = Append(hist, [op |-> "get", key |-> k, ovr |-> ovr, at |-> wall,
                             before |-> _cache,
                             result |-> cache_get(_cache, k, ovr, wall)])
    /\ UNCHANGED <<_cache, wall>>
    /\ UNCHANGED not_cache

CacheClearOp(p) ==
    /\ Len(hist) < MaxOps
    /\ _cache' = cache_clear(_cache, p)
    /\ hist' = Append(hist, [op |-> "clear", prefix |-> p, at |-> wall,
                             before |-> _cache])
    /\ UNCHANGED wall
    /\ UNCHANGED not_cache

\* The wall clock moves on between two operations.
CacheAdvance(d) ==
    /\ Len(hist) < MaxOps
    /\ wall' = wall + d
    /\ hist' = Append(hist, [op |-> "advance", by |-> d, at |-> wall + d])
    /\ UNCHANGED _cache
    /\ UNCHANGED not_cache

CacheNext ==
    \/ \E k \in CacheKeys : \E d \in CacheData : CacheSetOp(k, d)
    \/ \E site \in ReadSites : CacheGetOp(site[1], site[2])
    \/ \E p \in ClearPrefixes : CacheClearOp(p)
    \/ \E d \in ClockSteps : CacheAdvance(d)

------------------------------------------------------------------------------
(* Session resolver: get_fallback_session_key, set_demo_session (128-238)   *)

GraceSeconds == 1800     \* timedelta(minutes=30)

ResolvedTTL == 60        \* cache_get("_fallback_resolved", ttl_override=60)

DemoInfoTTL == 3600      \* cache_get(f"demo_info:...", ttl_override=3600)

HardcodedKey == 9839     \* SEASON_2025_RESULTS[max(...)]["session_key"]

MaxAdvances == 2         \* wall-clock jumps in SpecRes

\* Two requests resolve concurrently.
ResTasks == {1, 2}

\* Seconds the wall clock may jump between two steps of the resolver.
ResClockSteps == {60, 1800}

NoRes == [path |-> "none"]

\* A date string of the upstream: an ISO-8601 instant t (seconds) written with
\* a "Z" or a "+00:00" suffix, a string that is no ISO date, or "" / absent.
DateZ(t) == [fmt |-> "Z", t |-> t]

DatePlus(t) == [fmt |-> "+00:00", t |-> t]

DateBad == [fmt |-> "bad", t |-> 0]

DateMissing == [fmt |-> "missing", t |-> 0]

\* Sessions the upstream may report as "latest": session_key 0 stands for a
\* payload without (a truthy) session_key.
LatestSessions ==
    { [session_key |-> 9858, date_start |-> DateZ(0), date_end |-> DatePlus(60)],
      [session_key |-> 9858, date_start |-> DatePlus(1860),
       date_end |-> DateZ(1920)],
      [session_key |-> 9858, date_start |-> DatePlus(0),
       date_end |-> DateMissing],
      [session_key |-> 9858, date_start |-> DateBad, date_end |-> DateZ(60)],
      [session_key |-> 0, date_start |-> DateZ(1860), date_end |-> DateZ(1920)] }

\* str(sk)
StrOfInt(n) == ToString(n)

\* int(s) for a string s: [ok, n], ok = FALSE when int() raises (ValueError
\* for a non-numeral, TypeError for None).
IntOfStr(s) ==
    LET ns == {n \in {HardcodedKey, 9858} : ToString(n) = s}
    IN  IF ns = {} THEN [ok |-> FALSE, n |-> 0]
        ELSE [ok |-> TRUE, n |-> CHOOSE n \in ns : TRUE]

\* datetime.fromisoformat(d.replace("Z", "+00:00").replace("+00:00", "")):
\* a "Z" suffix becomes "+00:00", a "+00:00" suffix is dropped, what is left
\* parses to a naive datetime; [ok |-> FALSE] when fromisoformat raises.
ParseDate(d) ==
    LET d1 == IF d.fmt = "Z" THEN [d EXCEPT !.fmt = "+00:00"] ELSE d
        d2 == IF d1.fmt = "+00:00" THEN [d1 EXCEPT !.fmt = "naive"] ELSE d1
    IN  IF d2.fmt = "naive" THEN [ok |-> TRUE, t |-> d2.t]
        ELSE [ok |-> FALSE, t |-> 0]

IsLiveNoGrace(session, now) ==
    /\ session.date_start.fmt # "missing"
    /\ session.date_end.fmt # "missing"
    /\ ParseDate(session.date_start).ok
    /\ ParseDate(session.date_end).ok
    /\ ParseDate(session.date_start).t <= now
    /\ now <= ParseDate(session.date_end).t

\* Lines 191-201: is_live.
IsLive(session, now) ==
    /\ session.date_start.fmt # "missing"
    /\ session.date_end.fmt # "missing"
    /\ ParseDate(session.date_start).ok
    /\ ParseDate(session.date_end).ok
    /\ ParseDate(session.date_start).t <= now
    /\ now <= ParseDate(session.date_end).t + GraceSeconds

\* Lines 180-185 and 223-227: the hardcoded most recent known race.
HardcodedResolution(with_date) ==
    [key |-> StrOfInt(HardcodedKey), is_demo |-> TRUE,
     info |-> [session_key |-> HardcodedKey, src |-> "hardcoded",
               date_start |-> with_date]]

\* Lines 179-227: the resolution computed from the answer to the "latest"
\* query (ok = FALSE: None or an empty list) at time now.
ResolveLatest(ok, session, now) ==
    IF ~ok THEN HardcodedResolution(TRUE)
    ELSE IF IsLive(session, now)
         THEN [key |-> "latest", is_demo |-> FALSE, info |-> None]
         ELSE IF session.session_key # 0
              THEN [key |-> StrOfInt(session.session_key), is_demo |-> TRUE,
                    info |-> [session_key |-> session.session_key,
                              src |-> "latest",
                              date_start |-> session.date_start.fmt # "missing"]]
              ELSE HardcodedResolution(FALSE)

\* Lines 146-168: the metadata built after the override's fetch, from the
\* answer (found) for the key asked for (req) and the override as it is now.
OverrideInfo(found, req, override_now) ==
    IF found
    THEN [session_key |-> IF IntOfStr(req).ok THEN IntOfStr(req).n ELSE 0,
          src |-> "upstream", date_start |-> TRUE]
    ELSE [session_key |-> IF IntOfStr(override_now).ok
                          THEN IntOfStr(override_now).n ELSE 0,
          src |-> "fallback", date_start |-> FALSE]

\* str.lower() on the inputs of set_demo_session.
Lower(k) == IF k = "Auto" THEN "auto" ELSE k

NormalizeNothing(k) == k

\* Lines 233-235: the override set_demo_session(k) stores.
NormalizeOverride(k) ==
    IF k # "None" /\ Lower(k) \in {"auto", "clear", "none", ""} THEN "None"
    ELSE k

\* Line 142: `if _demo_override_key:`.
OverrideNever(k) == FALSE

OverrideActive(k) == k # "None"

ResInit ==
    /\ _demo_override_key = "None"
    /\ res_pc = [r \in ResTasks |-> "idle"]
    /\ res_req = [r \in ResTasks |-> "None"]
    /\ res_ret = NoRes
    /\ up_latest \in LatestSessions
    /\ adv = 0

\* Not part of a run of the resolver: its variables stay as imported.
ResIdle ==
    /\ _demo_override_key = "None"
    /\ res_pc = [r \in ResTasks |-> "idle"]
    /\ res_req = [r \in ResTasks |-> "None"]
    /\ res_ret = NoRes
    /\ up_latest = [session_key |-> 0, date_start |-> DateMissing,
                    date_end |-> DateMissing]
    /\ adv = 0

\* The call of task r returns (key, is_demo, info).
ResEnd(r, path, key, is_demo, info, ok, session) ==
    /\ res_ret' = [path |-> path, task |-> r, key |-> key, is_demo |-> is_demo,
                   info |-> info, ok |-> ok, session |-> session, at |-> wall]
    /\ res_pc' = [res_pc EXCEPT ![r] = "idle"]
    /\ res_req' = [res_req EXCEPT ![r] = "None"]

\* get_fallback_session_key up to its first suspension (lines 139-178): the
\* override's cached metadata or the cached resolution is returned at once,
\* else the task awaits fetch_openf1.
ResStart(r) ==
    /\ res_ret = NoRes
    /\ res_pc[r] = "idle"
    /\ IF OverrideActive(_demo_override_key)
       THEN LET info == cache_get(_cache, K_demo_info(_demo_override_key),
                                  DemoInfoTTL, wall)
            IN  IF info # None
                THEN ResEnd(r, "override_cached", _demo_override_key, TRUE,
                            info, FALSE, up_latest)
                ELSE /\ res_pc' = [res_pc EXCEPT ![r] = "fetch_override"]
                     /\ res_req' = [res_req EXCEPT ![r] = _demo_override_key]
                     /\ UNCHANGED res_ret
       ELSE LET cached == cache_get(_cache, K_fallback, ResolvedTTL, wall)
            IN  IF cached # None
                THEN ResEnd(r, "cached", cached.key, cached.is_demo,
                            cached.info, FALSE, up_latest)
                ELSE /\ res_pc' = [res_pc EXCEPT ![r] = "fetch_latest"]
                     /\ UNCHANGED <<res_req, res_ret>>
    /\ UNCHANGED <<_demo_override_key, up_latest, adv, _cache, wall>>
    /\ UNCHANGED not_res

\* The override's fetch_openf1 returns (lines 146-170).  The lines after the
\* await read the global _demo_override_key again.
ResOverrideFetched(r, found) ==
    /\ res_ret = NoRes
    /\ res_pc[r] = "fetch_override"
    /\ LET info == OverrideInfo(found, res_req[r], _demo_override_key)
       IN  /\ _cache' = cache_set(_cache, K_demo_info(_demo_override_key), info,
                                  wall)
           /\ ResEnd(r, "override_fetched", _demo_override_key, TRUE, info,
                     found, up_latest)
    /\ UNCHANGED <<_demo_override_key, up_latest, adv, wall>>
    /\ UNCHANGED not_res

\* The fetch_openf1 of the "latest" session returns (lines 178-227): with
\* nothing (ok = FALSE) or with the upstream's latest session.
ResLatestFetched(r, ok) ==
    /\ res_ret = NoRes
    /\ res_pc[r] = "fetch_latest"
    /\ LET res == ResolveLatest(ok, up_latest, wall)
       IN  /\ _cache' = cache_set(_cache, K_fallback, res, wall)
           /\ ResEnd(r, "latest", res.key, res.is_demo, res.info, ok, up_latest)
    /\ UNCHANGED <<_demo_override_key, up_latest, adv, wall>>
    /\ UNCHANGED not_res

\* The caller takes the resolution that has just returned.
ResReturn ==
    /\ res_ret # NoRes
    /\ res_ret' = NoRes
    /\ UNCHANGED <<_demo_override_key, res_pc, res_req, up_latest, adv, _cache,
                   wall>>
    /\ UNCHANGED not_res

\* set_demo_session(k) (lines 230-238).
SetDemoSession(k) ==
    /\ res_ret = NoRes
    /\ _demo_override_key' = NormalizeOverride(k)
    /\ _cache' = cache_clear(cache_clear(_cache, <<"_fallback">>), <<"live_">>)
    /\ UNCHANGED <<res_pc, res_req, res_ret, up_latest, adv, wall>>
    /\ UNCHANGED not_res

\* The wall clock moves on.
ResAdvance(d) ==
    /\ res_ret = NoRes
    /\ adv < MaxAdvances
    /\ adv' = adv + 1
    /\ wall' = wall + d
    /\ UNCHANGED <<_demo_override_key, res_pc, res_req, res_ret, up_latest,
                   _cache>>
    /\ UNCHANGED not_res

ResNext ==
    \/ \E r \in ResTasks : ResStart(r) /\ UNCHANGED aux_vars
    \/ \E r \in ResTasks : \E found \in BOOLEAN :
            ResOverrideFetched(r, found) /\ UNCHANGED aux_vars
    \/ \E r \in ResTasks : \E ok \in BOOLEAN :
            ResLatestFetched(r, ok) /\ UNCHANGED aux_vars
    \/ ResReturn /\ UNCHANGED aux_vars
    \/ \E k \in SetInputs : SetDemoSession(k) /\ UNCHANGED aux_vars
    \/ \E d \in ResClockSteps : ResAdvance(d) /\ UNCHANGED aux_vars

------------------------------------------------------------------------------
(* History of the resolver: what the round trip and the query rate are      *)
(* stated about.                                                            *)

NoTrip == [phase |-> "none"]

LvIdle == [pc |-> "idle"]

NoView == [kind |-> "none"]

GhostInit ==
    /\ trip = NoTrip
    /\ q_sent = <<>>
    /\ lv = LvIdle
    /\ lv_ret = NoView
    /\ lv_n = 0

\* set_demo_session(k) is a clearing call: None or a sentinel.
IsClearInput(k) == k = "None" \/ Lower(k) \in {"auto", "clear", "none"}

\* The session's declared window, with 30 minutes of grace after its end,
\* covers now; a missing or unparsable start or end covers nothing.
WindowCovers(session, now) ==
    /\ session.date_start.fmt \in {"Z", "+00:00"}
    /\ session.date_end.fmt \in {"Z", "+00:00"}
    /\ session.date_start.t <= now
    /\ now <= session.date_end.t + 30 * 60

\* trip after the caller took res_ret: an automatic resolution computed from
\* the upstream's answer, with no override set since, is remembered together
\* with the answer (ok) and the liveness it was computed from.
TripAfterReturn ==
    IF res_ret.path = "latest" /\ trip.phase # "set"
    THEN [phase |-> "auto", key |-> res_ret.key, is_demo |-> res_ret.is_demo,
          ok |-> res_ret.ok,
          live |-> WindowCovers(res_ret.session, res_ret.at)]
    ELSE trip

\* trip after set_demo_session(k).
TripAfterSet(k) ==
    IF IsClearInput(k)
    THEN IF trip.phase = "set" THEN [trip EXCEPT !.phase = "cleared"] ELSE trip
    ELSE IF trip.phase \in {"auto", "cleared"}
         THEN [trip EXCEPT !.phase = "set"]
         ELSE trip

TripNext ==
    \/ \E r \in ResTasks : ResStart(r) /\ UNCHANGED aux_vars
    \/ \E r \in ResTasks : \E found \in BOOLEAN :
            ResOverrideFetched(r, found) /\ UNCHANGED aux_vars
    \/ \E r \in ResTasks : \E ok \in BOOLEAN :
            ResLatestFetched(r, ok) /\ UNCHANGED aux_vars
    \/ ResReturn /\ trip' = TripAfterReturn /\ UNCHANGED <<q_sent, live_vars>>
    \/ \E k \in SetInputs :
            SetDemoSession(k) /\ trip' = TripAfterSet(k) /\ UNCHANGED <<q_sent, live_vars>>
    \/ \E d \in ResClockSteps : ResAdvance(d) /\ UNCHANGED aux_vars

------------------------------------------------------------------------------
(* Live views: get_live_session .. get_live_pit_stops (917-1305) and         *)
(* get_live_dashboard (1464-1500).  One request is served at a time; the     *)
(* operator and the clock act while it is suspended.                         *)

DemoTTL == 300       \* ttl_override=300 if _is_demo else None

MaxRequests == 2     \* view requests in SpecLive

\* Seconds the wall clock may jump between two steps in SpecLive: longer
\* than the table's TTL of every live category, shorter than DemoTTL.
LiveClockSteps == {60}

\* The task of the resolver that serves the view request.
LvTask == 1

\* Sessions the upstream reports as "latest" in SpecLive.
LiveSessions ==
    { [session_key |-> 9858, date_start |-> DateZ(0), date_end |-> DatePlus(60)] }

\* `_is_demo = (_session_key != "latest")`: a sub-view of the dashboard.
DemoOfKey(key, resolved_demo) == key # "latest"

\* `ttl_override=300 if _is_demo else None` (0 stands for None).
ViewOverride(is_demo) == IF is_demo THEN DemoTTL ELSE 0

\* The response a view builds from a successful fetch.
ViewResponse(cat, key, is_demo) ==
    [cat |-> cat, session_key |-> key, is_demo |-> is_demo, empty |-> FALSE]

\* The response of a view whose primary fetch returned nothing.
EmptyShape(cat, key, is_demo) ==
    [cat |-> cat, session_key |-> key, is_demo |-> is_demo, empty |-> TRUE]

\* Lines 925-928 (971-982, ...): the view's read of its cache entry; what the
\* view hands back on a hit, and what it awaits on a miss.
ViewHeader(cat, key, is_demo) ==
    LET ck == K_live(cat, key)
        cached == cache_get(_cache, ck, ViewOverride(is_demo), wall)
    IN  IF cached # None
        THEN [st |-> "done", src |-> "cache", out |-> cached,
              is_demo |-> is_demo, ovr |-> ViewOverride(is_demo),
              age |-> wall - _cache[ck].time]
        ELSE [st |-> "pending", src |-> "none", out |-> None,
              is_demo |-> is_demo, ovr |-> ViewOverride(is_demo), age |-> 0]

\* The view after its fetch returned (ok = FALSE: None or an empty list).
ViewFetched(part, cat, key, ok) ==
    [part EXCEPT !.st = "done",
                 !.src = IF ok THEN "fetch" ELSE "empty",
                 !.out = IF ok THEN ViewResponse(cat, key, part.is_demo)
                         ELSE EmptyShape(cat, key, part.is_demo)]

CacheEveryAnswer(c, ck, out, ok, now) == cache_set(c, ck, out, now)

\* The cache after the view's fetch: cache_set(cache_key, response) is
\* reached only past the `if not data: return ...` of the view (lines
\* 931-932 and 967, 991-992 and 1053, ...).
CacheAfterFetch(c, ck, out, ok, now) ==
    IF ok THEN cache_set(c, ck, out, now) ELSE c

\* A standalone view is requested: get_live_<cat>() calls the resolver.
LvStart(cat) ==
    /\ lv.pc = "idle"
    /\ lv_ret = NoView
    /\ lv_n < MaxRequests
    /\ lv_n' = lv_n + 1
    /\ ResStart(LvTask)
    /\ lv' = [pc |-> "resolving", kind |-> "view", cat |-> cat]
    /\ UNCHANGED <<lv_ret, ghost_vars>>

\* The resolver returns to the view, which reads its cache entry and hands it
\* back or awaits its upstream fetch.
LvResolved ==
    /\ lv.pc = "resolving"
    /\ lv.kind = "view"
    /\ res_ret # NoRes
    /\ LET part == ViewHeader(lv.cat, res_ret.key, res_ret.is_demo)
       IN  IF part.st = "done"
           THEN /\ lv_ret' = [kind |-> "view", key |-> res_ret.key,
                              resolved_demo |-> res_ret.is_demo,
                              parts |-> [c \in {lv.cat} |-> part]]
                /\ lv' = LvIdle
           ELSE /\ lv' = [pc |-> "fetching", kind |-> "view", cat |-> lv.cat,
                          key |-> res_ret.key,
                          resolved_demo |-> res_ret.is_demo,
                          parts |-> [c \in {lv.cat} |-> part]]
                /\ UNCHANGED lv_ret
    /\ res_ret' = NoRes
    /\ UNCHANGED <<_demo_override_key, res_pc, res_req, up_latest, adv, _cache,
                   wall>>
    /\ UNCHANGED <<not_res, ghost_vars, lv_n>>

\* The view's upstream fetch returns: nothing is cached on failure.
LvFetched(ok) ==
    /\ lv.pc = "fetching"
    /\ lv_ret = NoView
    /\ LET part == ViewFetched(lv.parts[lv.cat], lv.cat, lv.key, ok)
       IN  /\ lv_ret' = [kind |-> "view", key |-> lv.key,
                         resolved_demo |-> lv.resolved_demo,
                         parts |-> [c \in {lv.cat} |-> part]]
           /\ _cache' = CacheAfterFetch(_cache, K_live(lv.cat, lv.key),
                                        part.out, ok, wall)
    /\ lv' = LvIdle
    /\ UNCHANGED <<res_vars, wall>>
    /\ UNCHANGED <<not_res, ghost_vars, lv_n>>

\* get_live_dashboard is requested: it calls the resolver once.
DashStart ==
    /\ lv.pc = "idle"
    /\ lv_ret = NoView
    /\ lv_n < MaxRequests
    /\ lv_n' = lv_n + 1
    /\ ResStart(LvTask)
    /\ lv' = [pc |-> "resolving", kind |-> "dash", cat |-> "all"]
    /\ UNCHANGED <<lv_ret, ghost_vars>>

\* The resolver returns to the dashboard, which gathers its sub-views with
\* the resolved key: each reads its cache entry and, on a miss, awaits.
DashResolved ==
    /\ lv.pc = "resolving"
    /\ lv.kind = "dash"
    /\ res_ret # NoRes
    /\ lv' = [pc |-> "gathering", kind |-> "dash", cat |-> "all",
              key |-> res_ret.key, resolved_demo |-> res_ret.is_demo,
              parts |-> [c \in LiveCats |->
                            ViewHeader(c, res_ret.key,
                                       DemoOfKey(res_ret.key, res_ret.is_demo))]]
    /\ res_ret' = NoRes
    /\ UNCHANGED <<_demo_override_key, res_pc, res_req, up_latest, adv, _cache,
                   wall, lv_ret>>
    /\ UNCHANGED <<not_res, ghost_vars, lv_n>>

\* The upstream fetch of one sub-view returns.
DashPartFetched(cat, ok) ==
    /\ lv.pc = "gathering"
    /\ lv_ret = NoView
    /\ lv.parts[cat].st = "pending"
    /\ LET part == ViewFetched(lv.parts[cat], cat, lv.key, ok)
       IN  /\ lv' = [lv EXCEPT !.parts[cat] = part]
           /\ _cache' = CacheAfterFetch(_cache, K_live(cat, lv.key),
                                        part.out, ok, wall)
    /\ UNCHANGED <<res_vars, wall, lv_ret>>
    /\ UNCHANGED <<not_res, ghost_vars, lv_n>>

\* Lines 1487-1500: all sub-views are in; in demo mode the session part is
\* tagged.  The part is the very dict the cache holds when it came from, or
\* went into, the cache, so the cached entry is tagged with it.
DashFinish ==
    /\ lv.pc = "gathering"
    /\ lv_ret = NoView
    /\ \A c \in LiveCats : lv.parts[c].st = "done"
    /\ LET sess == lv.parts["session"]
           ck == K_live("session", lv.key)
           tagged == [sess EXCEPT !.out.is_demo = TRUE]
           aliased == /\ sess.src \in {"cache", "fetch"}
                      /\ _cache[ck] # Absent
                      /\ _cache[ck].data = sess.out
       IN  IF lv.resolved_demo
           THEN /\ lv_ret' = [kind |-> "dash", key |-> lv.key,
                              resolved_demo |-> lv.resolved_demo,
                              parts |-> [lv.parts EXCEPT !["session"] = tagged]]
                /\ _cache' = IF aliased
                             THEN [_cache EXCEPT ![ck].data = tagged.out]
                             ELSE _cache
           ELSE /\ lv_ret' = [kind |-> "dash", key |-> lv.key,
                              resolved_demo |-> lv.resolved_demo,
                              parts |-> lv.parts]
                /\ UNCHANGED _cache
    /\ lv' = LvIdle
    /\ UNCHANGED <<res_vars, wall>>
    /\ UNCHANGED <<not_res, ghost_vars, lv_n>>

\* The caller takes the view that has just been returned.
LvReturn ==
    /\ lv_ret # NoView
    /\ lv_ret' = NoView
    /\ UNCHANGED <<res_vars, cache_vars, not_res, ghost_vars, lv, lv_n>>

LiveNext ==
    \/ \E cat \in LiveCats : LvStart(cat)
    \/ DashStart
    \/ \E found \in BOOLEAN :
            ResOverrideFetched(LvTask, found) /\ UNCHANGED aux_vars
    \/ \E ok \in BOOLEAN : ResLatestFetched(LvTask, ok) /\ UNCHANGED aux_vars
    \/ LvResolved
    \/ \E ok \in BOOLEAN : LvFetched(ok)
    \/ DashResolved
    \/ \E cat \in LiveCats : \E ok \in BOOLEAN : DashPartFetched(cat, ok)
    \/ DashFinish
    \/ LvReturn
    \/ \E k \in LiveSetInputs :
            lv_ret = NoView /\ SetDemoSession(k) /\ UNCHANGED aux_vars
    \/ \E d \in LiveClockSteps :
            lv_ret = NoView /\ ResAdvance(d) /\ UNCHANGED aux_vars

\* q_sent after a step of ResStart(r): the times at which the last two
\* "latest" queries were sent to the upstream.
QueriesAfterStart(r) ==
    IF res_pc'[r] = "fetch_latest"
    THEN IF q_sent = <<>> THEN <<wall>> ELSE <<q_sent[Len(q_sent)], wall>>
    ELSE q_sent

QueryNext ==
    \/ \E r \in ResTasks :
            ResStart(r) /\ q_sent' = QueriesAfterStart(r)
                        /\ UNCHANGED <<trip, live_vars>>
    \/ \E r \in ResTasks : \E found \in BOOLEAN :
            ResOverrideFetched(r, found) /\ UNCHANGED aux_vars
    \/ \E r \in ResTasks : \E ok \in BOOLEAN :
            ResLatestFetched(r, ok) /\ UNCHANGED aux_vars
    \/ ResReturn /\ UNCHANGED aux_vars
    \/ \E k \in SetInputs :
            SetDemoSession(k) /\ q_sent' = <<>> /\ UNCHANGED <<trip, live_vars>>
    \/ \E d \in ResClockSteps : ResAdvance(d) /\ UNCHANGED aux_vars

\* The resolver as SpecLive starts it.
LiveResInit ==
    /\ _demo_override_key = "None"
    /\ res_pc = [r \in ResTasks |-> "idle"]
    /\ res_req = [r \in ResTasks |-> "None"]
    /\ res_ret = NoRes
    /\ up_latest \in LiveSessions
    /\ adv = 0

------------------------------------------------------------------------------
(* get_live_positions: the latest position per driver (lines 994-1054).     *)

MaxRecords == 3      \* records in one upstream answer

\* driver_number of the records; 0 stands for a record without one.
MergeDrivers == {0, 1, 44}

\* The "date" strings of the records, as sequences of characters; <<>> is
\* the "" that entry.get("date", "") gives a record without a date.
MergeDates == {<<>>, <<1>>, <<1, 0>>}

MergePositions == {1, 2}

PositionRecords ==
    [driver_number : MergeDrivers, date : MergeDates, position : MergePositions]

NoResult == <<[driver_number |-> 0]>>

\* Python's < on str: lexicographic, a proper prefix is smaller.
RECURSIVE LexLess(_, _)
LexLess(a, b) ==
    IF a = <<>> THEN b # <<>>
    ELSE IF b = <<>> THEN FALSE
    ELSE IF a[1] # b[1] THEN a[1] < b[1]
    ELSE LexLess(Tail(a), Tail(b))

ReplacesAlways(entry, kept) == TRUE

\* Line 1000: entry.get("date", "") > latest_pos[dn].get("date", "").
Replaces(entry, kept) == LexLess(kept.date, entry.date)

\* Index of driver dn in the dict, 0 when absent.
DictIndex(d, dn) ==
    IF \E i \in 1..Len(d) : d[i].driver_number = dn
    THEN CHOOSE i \in 1..Len(d) : d[i].driver_number = dn
    ELSE 0

\* Lines 996-1001: one turn of the loop on entry.
MergeEntry(d, entry) ==
    IF entry.driver_number = 0 THEN d
    ELSE IF DictIndex(d, entry.driver_number) = 0 THEN Append(d, entry)
    ELSE IF Replaces(entry, d[DictIndex(d, entry.driver_number)])
         THEN [d EXCEPT ![DictIndex(d, entry.driver_number)] = entry]
         ELSE d

\* Insert e into the sequence q sorted by position, after equal positions.
InsertByPosition(q, e) ==
    LET n == Cardinality({i \in 1..Len(q) : q[i].position <= e.position})
    IN  SubSeq(q, 1, n) \o <<e>> \o SubSeq(q, n + 1, Len(q))

\* sorted(latest_pos.values(), key=position): a stable sort.
RECURSIVE SortedByPosition(_)
SortedByPosition(d) ==
    IF d = <<>> THEN <<>>
    ELSE InsertByPosition(SortedByPosition(SubSeq(d, 1, Len(d) - 1)),
                          d[Len(d)])

\* Lines 1021-1047: the entry of the response for one driver.
PositionEntry(pos) ==
    [driver_number |-> pos.driver_number, position |-> pos.position]

MergeInit ==
    /\ positions_raw \in UNION {[1..n -> PositionRecords] : n \in 1..MaxRecords}
    /\ m_i = 0
    /\ latest_pos = <<>>
    /\ m_result = NoResult

\* Not part of a run of the merge.
MergeIdle ==
    /\ positions_raw = <<>>
    /\ m_i = 0
    /\ latest_pos = <<>>
    /\ m_result = NoResult

\* The loop of lines 996-1001 takes the next record.
MergeStep ==
    /\ m_result = NoResult
    /\ m_i < Len(positions_raw)
    /\ m_i' = m_i + 1
    /\ latest_pos' = MergeEntry(latest_pos, positions_raw[m_i + 1])
    /\ UNCHANGED <<positions_raw, m_result>>
    /\ UNCHANGED <<rl_vars, fetch_vars, cache_vars, res_vars, ghost_vars,
                   live_vars, outline_vars, calc_vars>>

\* Lines 1020-1049: the sorted result is built.
MergeFinish ==
    /\ m_result = NoResult
    /\ m_i = Len(positions_raw)
    /\ m_result' = [i \in 1..Len(latest_pos) |->
                        PositionEntry(SortedByPosition(latest_pos)[i])]
    /\ UNCHANGED <<positions_raw, m_i, latest_pos>>
    /\ UNCHANGED <<rl_vars, fetch_vars, cache_vars, res_vars, ghost_vars,
                   live_vars, outline_vars, calc_vars>>

MergeNext == MergeStep \/ MergeFinish

------------------------------------------------------------------------------
(* Track outline: _get_track_outline (lines 1912-1993), called by           *)
(* get_live_track_map for one session id.                                   *)

OutlineTTL == 86400      \* cache_get(cache_key, ttl_override=86400), line 1917

MinOutline == 20         \* len(points) >= 20

SampleCap == 500         \* location[:500]

TargetPoints == 250      \* len(points_raw) // 250

MaxOutlineCalls == 3     \* calls of _get_track_outline in SpecOutline

\* Two track-map requests may be in flight together.
OutlineTasks == {1, 2}

\* Numbers of samples the upstream's "location" answer may hold; 0 stands
\* for None or an empty list.
LocationSizes == {0, 10, 300}

\* Seconds the wall clock may jump between two steps in SpecOutline.
OutlineClockSteps == {OutlineTTL}

OIdle == [pc |-> "idle", overlapped |-> FALSE, mem |-> FALSE, loc |-> 0]

NoFile == [state |-> "none", points |-> 0]

\* Lines 1972-1979: the number of points kept from n samples with x and y.
OutlinePoints(n) ==
    LET m == Min(n, SampleCap)
        stride == Max(1, m \div TargetPoints)
    IN  (m + stride - 1) \div stride

FileNeverUsable(file) == FALSE

\* Lines 1923-1931: the file exists, parses and holds at least 20 points.
FileUsable(file) == file.state = "good" /\ file.points >= MinOutline

\* Outcomes of lines 1984-1990: the file is written, or makedirs/open raises
\* IOError and nothing is written, or the write fails after open truncated
\* the file.
WriteOutcomes == {"written", "refused", "truncated"}

FileAfterWrite(file, outcome, points) ==
    IF outcome = "written" THEN [state |-> "good", points |-> points]
    ELSE IF outcome = "truncated" THEN [state |-> "corrupt", points |-> 0]
    ELSE file

OutlineInit ==
    /\ o_task = [t \in OutlineTasks |-> OIdle]
    /\ o_disk = NoFile
    /\ o_loc = 0
    /\ o_writes = 0
    /\ o_hist = <<>>

OActive(t) == o_task[t].pc # "idle"

OCalls == Len(o_hist) + Cardinality({t \in OutlineTasks : OActive(t)})

\* The call of task t returns (points or None); the history records it.
OEnd(t, tasks, me, ok, src, file) ==
    /\ o_hist' = Append(o_hist, [task |-> t, ok |-> ok, src |-> src,
                                 overlapped |-> me.overlapped, mem |-> me.mem,
                                 loc |-> me.loc, disk_after |-> file])
    /\ o_task' = [tasks EXCEPT ![t] = OIdle]

\* _get_track_outline up to its first suspension (lines 1915-1937): the
\* outline in memory or on disk is returned at once, else the task awaits
\* the laps of driver 1.
OStart(t) ==
    /\ ~OActive(t)
    /\ OCalls < MaxOutlineCalls
    /\ LET cached == cache_get(_cache, K_outline, OutlineTTL, wall)
           busy == \E u \in OutlineTasks : OActive(u)
           me == [OIdle EXCEPT !.overlapped = busy, !.mem = cached # None]
           others == [u \in OutlineTasks |->
                        IF OActive(u)
                        THEN [o_task[u] EXCEPT !.overlapped = TRUE]
                        ELSE o_task[u]]
       IN  IF cached # None
           THEN OEnd(t, others, me, TRUE, "memory", o_disk) /\ UNCHANGED _cache
           ELSE IF FileUsable(o_disk)
           THEN /\ _cache' = cache_set(_cache, K_outline,
                                       [points |-> o_disk.points], wall)
                /\ OEnd(t, others, me, TRUE, "disk", o_disk)
           ELSE /\ o_task' = [others EXCEPT ![t] = [me EXCEPT !.pc = "laps1"]]
                /\ UNCHANGED <<_cache, o_hist>>
    /\ UNCHANGED <<o_disk, o_loc, o_writes, wall, hist>>
    /\ UNCHANGED <<rl_vars, fetch_vars, res_vars, ghost_vars, live_vars,
                   merge_vars, calc_vars>>

\* A laps fetch returns (lines 1934-1967): nothing, laps of which none has a
\* date_start, or laps with a target lap, for which the location fetch is
\* sent.
OLaps(t, answer) ==
    /\ o_task[t].pc \in {"laps1", "laps2"}
    /\ IF answer = "none" /\ o_task[t].pc = "laps1"
       THEN /\ o_task' = [o_task EXCEPT ![t].pc = "laps2"]
            /\ UNCHANGED <<o_hist, o_loc>>
       ELSE IF answer \in {"none", "undated"}
       THEN OEnd(t, o_task, o_task[t], FALSE, "none", o_disk)
            /\ UNCHANGED o_loc
       ELSE /\ o_task' = [o_task EXCEPT ![t].pc = "location", ![t].loc = 1]
            /\ o_loc' = o_loc + 1
            /\ UNCHANGED o_hist
    /\ UNCHANGED <<o_disk, o_writes, cache_vars>>
    /\ UNCHANGED <<rl_vars, fetch_vars, res_vars, ghost_vars, live_vars,
                   merge_vars, calc_vars>>

\* The location fetch returns n samples (lines 1968-1993): the outline is
\* downsampled, written to disk and cached, unless it is too short.
OLocation(t, n, outcome) ==
    /\ o_task[t].pc = "location"
    /\ IF n = 0 \/ OutlinePoints(n) < MinOutline
       THEN /\ OEnd(t, o_task, o_task[t], FALSE, "none", o_disk)
            /\ UNCHANGED <<o_disk, o_writes, _cache>>
       ELSE /\ o_disk' = FileAfterWrite(o_disk, outcome, OutlinePoints(n))
            /\ o_writes' = IF outcome = "refused" THEN o_writes
                           ELSE o_writes + 1
            /\ _cache' = cache_set(_cache, K_outline,
                                   [points |-> OutlinePoints(n)], wall)
            /\ OEnd(t, o_task, o_task[t], TRUE, "fetch",
                    FileAfterWrite(o_disk, outcome, OutlinePoints(n)))
    /\ UNCHANGED <<o_loc, wall, hist>>
    /\ UNCHANGED <<rl_vars, fetch_vars, res_vars, ghost_vars, live_vars,
                   merge_vars, calc_vars>>

\* An administrator flushes the cache: cache_clear() (api.py:1019).
OFlush ==
    /\ _cache' = cache_clear(_cache, <<>>)
    /\ UNCHANGED <<wall, hist, outline_vars>>
    /\ UNCHANGED <<rl_vars, fetch_vars, res_vars, ghost_vars, live_vars,
                   merge_vars, calc_vars>>

\* The wall clock moves on.
OAdvance(d) ==
    /\ adv < MaxAdvances
    /\ adv' = adv + 1
    /\ wall' = wall + d
    /\ UNCHANGED <<_demo_override_key, res_pc, res_req, res_ret, up_latest>>
    /\ UNCHANGED <<_cache, hist, outline_vars>>
    /\ UNCHANGED <<rl_vars, fetch_vars, ghost_vars, live_vars, merge_vars,
                   calc_vars>>

OutlineNext ==
    \/ \E t \in OutlineTasks : OStart(t)
    \/ \E t \in OutlineTasks : \E answer \in {"none", "undated", "laps"} :
            OLaps(t, answer)
    \/ \E t \in OutlineTasks : \E n \in LocationSizes :
            \E outcome \in WriteOutcomes : OLocation(t, n, outcome)
    \/ OFlush
    \/ \E d \in OutlineClockSteps : OAdvance(d)

------------------------------------------------------------------------------
(* Tyre degradation: the body of the stint loop of                          *)
(* get_live_tyre_degradation (lines 1839-1894) and _linear_regression       *)
(* (lines 1814-1828), for one stint of one driver.  Lap times are counted   *)
(* in milliseconds, so round(x, 3) of a time is the time itself.            *)

MinClean == 2            \* len(clean_laps) < 2, len(filtered) < 2

MinFit == 3              \* _linear_regression: n < 3

FuelPerLap == 30         \* 0.03 s per remaining lap, in ms

OutlierNum == 11         \* median_time * 1.10 = median_time * 11 / 10

OutlierDen == 10

RateScale == 10          \* round(slope, 4): 1 ms per lap = 10 units of 1e-4 s

MaxLaps == 3             \* laps of the driver in SpecDeg

\* total_laps of SpecDeg: the greatest lap_number of the session.
DegTotalLaps == 4

DegLapNumbers == 1..DegTotalLaps

\* Lap times (ms): two laps 10 ms apart and a safety-car lap.
DegTimes == {88000, 88010, 140000}

\* A stint without bounds (lap_start 0, lap_end None) and one with both.
DegStints == { [lap_start |-> 0, lap_end |-> 0],
               [lap_start |-> 2, lap_end |-> 4] }

CleanLap(lap, time) == [lap |-> lap, time |-> time, is_pit_out |-> FALSE]

\* The stints of the specification's examples, a rising stint of four laps
\* and a stint with a safety-car lap, and a stint rising by 10 ms a lap.
ExampleLaps ==
    { <<CleanLap(1, 90000), CleanLap(2, 90300), CleanLap(3, 90600),
        CleanLap(4, 90900)>>,
      <<CleanLap(1, 88000), CleanLap(2, 88200), CleanLap(3, 88100),
        CleanLap(4, 140000)>>,
      <<CleanLap(1, 88000), CleanLap(2, 88010), CleanLap(3, 88020)>> }

\* Line 1833: laps = sorted(driver_laps.get(dn, []), key=lambda x: x["lap"]).
\* The lap numbers of n laps in sorted order.
SortedLapNumbers(n) ==
    {ls \in [1..n -> DegLapNumbers] : \A i \in 1..(n - 1) : ls[i] <= ls[i + 1]}

\* laps is a list of n laps: sorted lap numbers, any times, any pit-out
\* flags.
IsLapList(laps, n) ==
    \E ls \in SortedLapNumbers(n) :
        \E ts \in [1..n -> DegTimes] : \E ps \in [1..n -> BOOLEAN] :
            laps = [i \in 1..n |->
                       [lap |-> ls[i], time |-> ts[i], is_pit_out |-> ps[i]]]

NoStint == [kind |-> "skipped"]

NoReg == [kind |-> "none"]

NoRate == [kind |-> "none"]

\* Lines 1840-1844: the laps of the stint; `or` replaces a missing bound.
StintLaps(laps, stint, total) ==
    LET lap_start == IF stint.lap_start = 0 THEN 1 ELSE stint.lap_start
        lap_end == IF stint.lap_end = 0 THEN total ELSE stint.lap_end
    IN  SelectSeq(laps, LAMBDA l : lap_start <= l.lap /\ l.lap <= lap_end)

\* Line 1849.
CleanLaps(stint_laps) == SelectSeq(stint_laps, LAMBDA l : ~l.is_pit_out)

RECURSIVE InsertTime(_, _)
InsertTime(t, sorted) ==
    IF sorted = <<>> \/ t <= Head(sorted) THEN <<t>> \o sorted
    ELSE <<Head(sorted)>> \o InsertTime(t, Tail(sorted))

RECURSIVE SortedTimes(_)
\* Line 1854: times = sorted(l["time"] for l in clean_laps).
SortedTimes(laps) ==
    IF laps = <<>> THEN <<>>
    ELSE InsertTime(Head(laps).time, SortedTimes(Tail(laps)))

\* Line 1855: times[len(times) // 2], with Python's indices from 0.
MedianTime(laps) == SortedTimes(laps)[(Len(laps) \div 2) + 1]

KeepsEveryLap(time, median_time) == TRUE

\* Line 1858: l["time"] <= median_time * 1.10.
WithinMedian(time, median_time) ==
    OutlierDen * time <= OutlierNum * median_time

\* Lines 1858-1860.
Filtered(clean_laps) ==
    LET median_time == MedianTime(clean_laps)
        filtered == SelectSeq(clean_laps,
                              LAMBDA l : WithinMedian(l.time, median_time))
    IN  IF Len(filtered) < MinClean THEN clean_laps ELSE filtered

FuelAdded(time, lap, total) == time + FuelPerLap * (total - lap)

\* Line 1865: corrected = l["time"] - 0.03 * (total_laps - l["lap"]).
Corrected(time, lap, total) == time - FuelPerLap * (total - lap)

\* Lines 1863-1870.
LapData(filtered, total) ==
    [i \in 1..Len(filtered) |->
        [lap |-> filtered[i].lap, raw_time |-> filtered[i].time,
         corrected_time |->
            Corrected(filtered[i].time, filtered[i].lap, total)]]

\* round(): a / b for b > 0 rounded to the nearest integer, ties to even.
RoundDiv(a, b) ==
    LET q == a \div b
        r == a % b
    IN  IF 2 * r < b THEN q
        ELSE IF 2 * r > b THEN q + 1
        ELSE IF q % 2 = 0 THEN q ELSE q + 1

EnoughFromTwo(n) == n >= 2

\* Line 1817: a fit needs three points.
EnoughPoints(n) == n >= MinFit

\* _linear_regression (lines 1814-1828) on the points (lap, corrected_time):
\* the slope is num / denom ms per lap, the intercept (sum_y * denom -
\* num * sum_x) / (n * denom) ms.
LinearRegression(lap_data) ==
    LET n == Len(lap_data)
        sum_x == SumTo([i \in 1..n |-> lap_data[i].lap], 1, n)
        sum_y == SumTo([i \in 1..n |-> lap_data[i].corrected_time], 1, n)
        sum_xy == SumTo([i \in 1..n |->
                        lap_data[i].lap * lap_data[i].corrected_time], 1, n)
        sum_x2 == SumTo([i \in 1..n |-> lap_data[i].lap * lap_data[i].lap],
                        1, n)
        denom == n * sum_x2 - sum_x * sum_x
    IN  IF ~EnoughPoints(n) THEN NoReg
        ELSE IF denom = 0 THEN NoReg
        ELSE [kind |-> "fit", num |-> n * sum_xy - sum_x * sum_y,
              denom |-> denom, n |-> n, sum_x |-> sum_x, sum_y |-> sum_y]

\* slope * lap + intercept, rounded to the millisecond (lines 1884-1885).
TrendAt(reg, lap) ==
    RoundDiv(reg.num * lap * reg.n + reg.sum_y * reg.denom
                 - reg.num * reg.sum_x,
             reg.n * reg.denom)

\* Lines 1872-1894: the stint's entry of stint_results.
StintResult(lap_data) ==
    LET reg == LinearRegression(lap_data)
    IN  IF reg = NoReg
        THEN [kind |-> "stint", deg_rate |-> NoRate, slope |-> NoReg,
              laps |-> lap_data, trend_line |-> <<>>]
        ELSE [kind |-> "stint",
              deg_rate |-> [kind |-> "rate",
                            e4 |-> RoundDiv(RateScale * reg.num, reg.denom)],
              slope |-> reg,
              laps |-> lap_data,
              trend_line |->
                 <<[lap |-> lap_data[1].lap,
                    time |-> TrendAt(reg, lap_data[1].lap)],
                   [lap |-> lap_data[Len(lap_data)].lap,
                    time |-> TrendAt(reg, lap_data[Len(lap_data)].lap)]>>]

DegIdle ==
    /\ d_laps = <<>>
    /\ d_stint = [lap_start |-> 0, lap_end |-> 0]
    /\ d_total = 0
    /\ d_pc = "done"
    /\ d_clean = <<>>
    /\ d_filtered = <<>>
    /\ d_result = NoStint

DegInit ==
    /\ \/ \E n \in 0..MaxLaps : IsLapList(d_laps, n)
       \/ d_laps \in ExampleLaps
    /\ d_stint \in DegStints
    /\ d_total = DegTotalLaps
    /\ d_pc = "select"
    /\ d_clean = <<>>
    /\ d_filtered = <<>>
    /\ d_result = NoStint

\* Lines 1835-1851: the driver without laps and the stint without laps or
\* with fewer than two clean laps are skipped.
DegSelect ==
    /\ d_pc = "select"
    /\ LET clean_laps == CleanLaps(StintLaps(d_laps, d_stint, d_total))
       IN  /\ d_clean' = clean_laps
           /\ d_pc' = IF Len(clean_laps) < MinClean THEN "done" ELSE "filter"
    /\ UNCHANGED <<d_laps, d_stint, d_total, d_filtered, d_result>>
    /\ UNCHANGED <<base_vars, enrich_vars, weather_vars>>

\* Lines 1853-1860: the outlier filter.
DegFilter ==
    /\ d_pc = "filter"
    /\ d_filtered' = Filtered(d_clean)
    /\ d_pc' = "fit"
    /\ UNCHANGED <<d_laps, d_stint, d_total, d_clean, d_result>>
    /\ UNCHANGED <<base_vars, enrich_vars, weather_vars>>

\* Lines 1862-1894: fuel correction, regression and the stint's entry.
DegFit ==
    /\ d_pc = "fit"
    /\ d_result' = StintResult(LapData(d_filtered, d_total))
    /\ d_pc' = "done"
    /\ UNCHANGED <<d_laps, d_stint, d_total, d_clean, d_filtered>>
    /\ UNCHANGED <<base_vars, enrich_vars, weather_vars>>

DegNext == DegSelect \/ DegFilter \/ DegFit

------------------------------------------------------------------------------
(* Dashboard tyre age: the result loop of get_live_positions (lines         *)
(* 1026-1048) and the cross-enrichment of get_live_dashboard (lines         *)
(* 1477-1486).                                                              *)

MaxPositions == 2        \* position records in SpecEnrich

MaxPasses == 2           \* dashboard requests in SpecEnrich

EnrichDrivers == {1, 44}

\* lap_start and lap_end of a stint; 0 stands for None, a missing key and 0.
StintStarts == {0, 1, 3}

StintEnds == {0, 3}

\* lap_number of a timing record; 0 stands for a lap without a number.
TimingLaps == {0, 2, 5}

\* The latest stints of the drivers of latest_pos, one record per driver
\* (latest_pos is a dict), in the order of sorted_positions.
StintLists ==
    {st \in UNION {[1..n -> [driver_number : EnrichDrivers,
                             lap_start : StintStarts, lap_end : StintEnds]] :
                      n \in 0..MaxPositions} :
        \A i, j \in 1..Len(st) :
            st[i].driver_number = st[j].driver_number => i = j}

\* timing["timing"] has one record per driver of latest_laps.
Timings == UNION {[D -> TimingLaps] : D \in SUBSET EnrichDrivers}

\* Lines 1031-1038.
DerivedAge(stint) ==
    IF stint.lap_start # 0 /\ stint.lap_end # 0
    THEN stint.lap_end - stint.lap_start
    ELSE 0

\* Lines 1040-1048: the position record.
PositionRecord(stint) ==
    [driver_number |-> stint.driver_number,
     tyre_age |-> DerivedAge(stint),
     _stint_lap_start |-> stint.lap_start,
     current_lap |-> 0]

\* Lines 1483-1485: tyre_age of the record after the cross-enrichment.
EnrichedAge(p, lap_number) ==
    IF p._stint_lap_start # 0 /\ p.tyre_age = 0
    THEN Max(0, lap_number - p._stint_lap_start)
    ELSE p.tyre_age

\* Lines 1481-1486: one position record after the loop body.
Enriched(p, timing) ==
    IF p.driver_number \in DOMAIN timing /\ timing[p.driver_number] # 0
    THEN [p EXCEPT !.tyre_age = EnrichedAge(p, timing[p.driver_number]),
                   !.current_lap = timing[p.driver_number]]
    ELSE p

EnrichIdle ==
    /\ e_stints = <<>>
    /\ e_timing = <<>>
    /\ e_pc = "done"
    /\ e_built = <<>>
    /\ e_positions = <<>>
    /\ e_i = 0
    /\ e_n = 0

EnrichInit ==
    /\ e_stints \in StintLists
    /\ e_timing \in Timings
    /\ e_pc = "build"
    /\ e_built = <<>>
    /\ e_positions = <<>>
    /\ e_i = 0
    /\ e_n = 0

\* get_live_positions builds its result (lines 1026-1048).
EnrichBuild ==
    /\ e_pc = "build"
    /\ e_positions' = [i \in 1..Len(e_stints) |-> PositionRecord(e_stints[i])]
    /\ e_built' = e_positions'
    /\ e_pc' = "guard"
    /\ UNCHANGED <<e_stints, e_timing, e_i, e_n>>
    /\ UNCHANGED <<base_vars, deg_vars, weather_vars>>

\* Line 1478: the second pass runs only with positions and timing.
EnrichGuard ==
    /\ e_pc = "guard"
    /\ e_pc' = IF e_positions # <<>> /\ DOMAIN e_timing # {}
               THEN "loop" ELSE "done"
    /\ UNCHANGED <<e_stints, e_timing, e_built, e_positions, e_i, e_n>>
    /\ UNCHANGED <<base_vars, deg_vars, weather_vars>>

\* Lines 1480-1486: the loop body for the next position record.
EnrichStep ==
    /\ e_pc = "loop"
    /\ e_i < Len(e_positions)
    /\ e_i' = e_i + 1
    /\ e_positions' = [e_positions EXCEPT
                          ![e_i + 1] = Enriched(e_positions[e_i + 1], e_timing)]
    /\ e_pc' = IF e_i + 1 = Len(e_positions) THEN "done" ELSE "loop"
    /\ UNCHANGED <<e_stints, e_timing, e_built, e_n>>
    /\ UNCHANGED <<base_vars, deg_vars, weather_vars>>

\* The laps go on: every driver with a timing record keeps one, with the
\* same or a later lap.
LaterTimings(timing) ==
    {later \in Timings :
        \A d \in DOMAIN timing : d \in DOMAIN later /\ later[d] >= timing[d]}

\* The next dashboard request: get_live_timing has new laps; get_live_positions
\* either returns the object it cached (line 982), as the last dashboard
\* request left it, or builds its result again once the entry has expired.
EnrichAgain(later, cached) ==
    /\ e_pc = "done"
    /\ e_n < MaxPasses - 1
    /\ e_n' = e_n + 1
    /\ e_timing' = later
    /\ e_i' = 0
    /\ e_pc' = IF cached /\ e_positions # <<>> THEN "guard" ELSE "build"
    /\ UNCHANGED <<e_stints, e_built, e_positions>>
    /\ UNCHANGED <<base_vars, deg_vars, weather_vars>>

EnrichNext ==
    \/ EnrichBuild
    \/ EnrichGuard
    \/ EnrichStep
    \/ \E later \in LaterTimings(e_timing) : \E cached \in BOOLEAN :
            EnrichAgain(later, cached)

------------------------------------------------------------------------------
(* Weather: the record get_live_weather reports (lines 1181-1201).          *)

MaxWeather == 3          \* weather records in SpecWeather

Temperatures == {20, 25}

\* The records of the upstream: `date` as in the positions merge, and
\* air_temperature standing for all the readings of the record.
WeatherRecords == [date : MergeDates \ {<<>>}, air_temperature : Temperatures]

WeatherLists == UNION {[1..n -> WeatherRecords] : n \in 0..MaxWeather}

NoWeather == [kind |-> "pending"]

\* Lines 1182-1197: None without data, else the readings of data[-1].
WeatherView(data) ==
    IF data = <<>> THEN [kind |-> "None"]
    ELSE [kind |-> "weather",
          air_temperature |-> data[Len(data)].air_temperature]

WeatherIdle ==
    /\ w_data = <<>>
    /\ w_pc = "done"
    /\ w_response = NoWeather

WeatherInit ==
    /\ w_data \in WeatherLists
    /\ w_pc = "fetched"
    /\ w_response = NoWeather

\* fetch_openf1("weather") has returned; the view is built.
WeatherBuild ==
    /\ w_pc = "fetched"
    /\ w_response' = WeatherView(w_data)
    /\ w_pc' = "done"
    /\ UNCHANGED w_data
    /\ UNCHANGED <<base_vars, deg_vars, enrich_vars>>

WeatherNext == WeatherBuild

\* The computations that touch no shared state are not running.
CalcIdle == DegIdle /\ EnrichIdle /\ WeatherIdle

------------------------------------------------------------------------------
\* Each specification starts every subsystem in its state after import and
\* runs the actions of one of them.
InitRL ==
    RLInit /\ FetchInit /\ CacheInit /\ ResIdle /\ GhostInit /\ MergeIdle
           /\ OutlineInit /\ CalcIdle

InitBurst ==
    RLBurstInit /\ FetchInit /\ CacheInit /\ ResIdle /\ GhostInit /\ MergeIdle
                /\ OutlineInit /\ CalcIdle

InitFetch ==
    RLInit /\ FetchInit /\ CacheInit /\ ResIdle /\ GhostInit /\ MergeIdle
           /\ OutlineInit /\ CalcIdle

InitCache ==
    RLInit /\ FetchInit /\ CacheInit /\ ResIdle /\ GhostInit /\ MergeIdle
           /\ OutlineInit /\ CalcIdle

InitRes ==
    RLInit /\ FetchInit /\ CacheInit /\ ResInit /\ GhostInit /\ MergeIdle
           /\ OutlineInit /\ CalcIdle

InitTrip ==
    RLInit /\ FetchInit /\ CacheInit /\ ResInit /\ GhostInit /\ MergeIdle
           /\ OutlineInit /\ CalcIdle

InitQuery ==
    RLInit /\ FetchInit /\ CacheInit /\ ResInit /\ GhostInit /\ MergeIdle
           /\ OutlineInit /\ CalcIdle

InitMerge ==
    RLInit /\ FetchInit /\ CacheInit /\ ResIdle /\ GhostInit /\ MergeInit
           /\ OutlineInit /\ CalcIdle

InitOutline ==
    RLInit /\ FetchInit /\ CacheInit /\ ResIdle /\ GhostInit /\ MergeIdle
           /\ OutlineInit /\ CalcIdle

\* Everything but the stint computation is at rest.
BaseIdle ==
    RLInit /\ FetchInit /\ CacheInit /\ ResIdle /\ GhostInit /\ MergeIdle
           /\ OutlineInit

InitDeg == BaseIdle /\ DegInit /\ EnrichIdle /\ WeatherIdle

InitEnrich == BaseIdle /\ DegIdle /\ EnrichInit /\ WeatherIdle

InitWeather == BaseIdle /\ DegIdle /\ EnrichIdle /\ WeatherInit

InitLive ==
    RLInit /\ FetchInit /\ CacheInit /\ LiveResInit /\ GhostInit /\ MergeIdle
           /\ OutlineInit /\ CalcIdle

SpecRL == InitRL /\ [][RLNext]_vars

SpecBurst == InitBurst /\ [][RLBurstNext]_vars

SpecFetch == InitFetch /\ [][FetchNext]_vars

SpecCache == InitCache /\ [][CacheNext]_vars

SpecRes == InitRes /\ [][ResNext]_vars

SpecTrip == InitTrip /\ [][TripNext]_vars

SpecLive == InitLive /\ [][LiveNext]_vars

SpecQuery == InitQuery /\ [][QueryNext]_vars

SpecMerge == InitMerge /\ [][MergeNext]_vars

SpecOutline == InitOutline /\ [][OutlineNext]_vars

SpecDeg == InitDeg /\ [][DegNext]_vars

SpecEnrich == InitEnrich /\ [][EnrichNext]_vars

SpecWeather == InitWeather /\ [][WeatherNext]_vars

\* Number of acquire() calls that returned at a tick in lo..hi.
ReturnsIn(lo, hi) == SumTo(ret_count, lo, hi)

\* C1 (as claimed): no overshoot.  In every interval [t1, t2] of the clock the
\* number of acquire() calls that return is at most burst + rate * (t2 - t1);
\* in scaled units: TokenScale * returns <= BurstScaled + (t2 - t1) refills.
C1_NoOvershoot ==
    \A t1 \in 0..mono : \A t2 \in t1..mono :
        ReturnsIn(t1, t2) * TokenScale
            <= BurstScaled + RLRefillUncapped(0, t2 - t1)

\* C2: in every reachable state 0 <= tokens <= burst.
C2_TokenBounds == 0 <= tokens /\ tokens <= BurstScaled

\* C2 witness: after tokens were consumed and time passed, a caller's refill
\* has filled the bucket to exactly burst (the cap of line 70 applied).
C2_Witness ==
    /\ tokens = BurstScaled
    /\ ReturnsIn(0, mono) > 0
    /\ \E c \in Callers : rl_pc[c] = "refilled"

FirstRet == CHOOSE t \in 0..mono :
                ret_count[t] > 0 /\ \A u \in 0..mono : ret_count[u] > 0 => t <= u

LastRet == CHOOSE t \in 0..mono :
               ret_count[t] > 0 /\ \A u \in 0..mono : ret_count[u] > 0 => u <= t

\* C3: burst test.  From a full bucket, once all burst+1 simultaneous calls
\* have returned, the last return is at least 1/rate seconds after the first.
C3_BurstTakesOneInterval ==
    ReturnsIn(0, mono) = Burst + 1
        => (LastRet - FirstRet) * RateScaled >= OneToken * TicksPerSec

C3_Witness ==
    /\ ReturnsIn(0, mono) = Burst + 1
    /\ \A c \in BurstCallers : rl_pc[c] = "idle"
    /\ ret_count[0] = Burst

------------------------------------------------------------------------------
(* Claims about the retrying fetchers and the semaphore                     *)

Is200(o) == o \in {"ok200", "nofield200", "bad200"}

\* Tasks inside the section guarded by `async with _openf1_semaphore`.
InsideSem == {p \in Tasks : f_kind[p] = "openf1"
                            /\ f_pc[p] \in {"get", "sleep", "sleep429"}}

\* C4: retry budget.  A call of fetch_openf1 or fetch_ergast never has more
\* than retries + 1 GETs issued and never starts an iteration beyond the
\* budget; a call that returns hands back the parsed body when its last
\* response was an HTTP 200 (the only 200 it saw, since a 200 ends the call)
\* and None when no response was an HTTP 200.
C4_RetryBudget ==
    /\ \A p \in Tasks : f_gets[p] <= Retries + 1 /\ f_attempt[p] <= Retries
    /\ (f_ret # NoRet /\ f_ret.result # "raise") =>
          /\ 1 <= f_ret.gets /\ f_ret.gets <= Retries + 1
          /\ Is200(f_ret.last) => f_ret.result \in {"data", "empty"}
          /\ ~Is200(f_ret.last) => f_ret.result = "None"

\* C4 witness: a call has used the whole budget (three GETs, the last one
\* answered 429) and returned None.
C4_Witness ==
    /\ f_ret # NoRet
    /\ f_ret.gets = Retries + 1
    /\ f_ret.last = "s429"
    /\ f_ret.result = "None"

\* C5 (as claimed): no call of fetch_openf1 or fetch_ergast ends by
\* propagating an exception, whatever the upstream answers.
C5_NeverRaises == f_ret # NoRet => f_ret.result # "raise"

\* C6: admission control.  At most SemSize fetch_openf1 calls are inside the
\* guarded section, a task waits on the semaphore only while all permits are
\* out or it is about to be woken, and the permits out are exactly the calls
\* inside: every exit path (200, exhausted retries, exception) returned its
\* permit.
C6_Admission ==
    /\ Cardinality(InsideSem) <= SemSize
    /\ sem_value = SemSize - Cardinality(InsideSem)
    /\ sem_value >= 0

\* C6 witness: three calls are inside the guarded section, no permit is left
\* and a fourth task is suspended on the semaphore.
C6_Witness ==
    /\ Cardinality(InsideSem) = SemSize
    /\ \E p \in Tasks : f_pc[p] = "wait_sem"

------------------------------------------------------------------------------
(* Claims about the cache                                                   *)

\* The operation just performed (SpecCache records every one in hist).
LastOp == hist[Len(hist)]

\* A cache_clear with prefix p (<<>>: no prefix) covers key k.
ClearCovers(p, k) == p = <<>> \/ StartsWith(k, p)

\* The TTL that applies to a read of k: the override the caller passes, and
\* without one the category's entry of the static table (default 300 s).
ApplicableTTL(k, ovr) ==
    IF ovr # 0 THEN ovr
    ELSE IF Category(k) \in DOMAIN CACHE_TTL THEN CACHE_TTL[Category(k)] ELSE 300

\* hist[i] is a cache_set of k with no later cache_set of k and no covering
\* cache_clear before the last operation.
StillStored(i, k) ==
    /\ hist[i].op = "set"
    /\ hist[i].key = k
    /\ \A j \in (i + 1)..(Len(hist) - 1) :
          /\ ~(hist[j].op = "set" /\ hist[j].key = k)
          /\ ~(hist[j].op = "clear" /\ ClearCovers(hist[j].prefix, k))

\* C7: cache round trip.  A cache_get(k) that follows a cache_set(k, v) before
\* the applicable TTL has elapsed, with no cache_set(k) and no covering
\* cache_clear in between, returns v; and cache_get leaves the cache as it was.
C7_RoundTrip ==
    (hist # <<>> /\ LastOp.op = "get") =>
        /\ \A i \in 1..(Len(hist) - 1) :
              (/\ StillStored(i, LastOp.key)
               /\ LastOp.at - hist[i].at < ApplicableTTL(LastOp.key, LastOp.ovr))
                  => LastOp.result = hist[i].data
        /\ _cache = LastOp.before

\* C7 witness: a value stored, overwritten by another, read back after the
\* clock has moved, within the TTL: the read returns the second value.
C7_Witness ==
    /\ Len(hist) = 4
    /\ hist[1].op = "set" /\ hist[1].data = [v |-> "a"]
    /\ hist[2].op = "set" /\ hist[2].data = [v |-> "b"]
    /\ hist[2].key = hist[1].key
    /\ hist[3].op = "advance"
    /\ LastOp.op = "get" /\ LastOp.key = hist[1].key
    /\ LastOp.result = [v |-> "b"]

\* C8 (as claimed): every read of a key issued at or after storedAt + the
\* static table's TTL for the key's category misses, whatever override the
\* caller passes.
C8_ExpiryByTable ==
    (/\ hist # <<>>
     /\ LastOp.op = "get"
     /\ LastOp.before[LastOp.key] # Absent
     /\ LastOp.at >= LastOp.before[LastOp.key].time + TableTTL(LastOp.key))
        => LastOp.result = None

\* C8 (amended): every read of a key issued at or after storedAt + T misses,
\* where T is the caller's TTL override when it passes one and the static
\* table's TTL for the key's category (default 300 s) otherwise.
C8_ExpiryByApplicableTTL ==
    (/\ hist # <<>>
     /\ LastOp.op = "get"
     /\ LastOp.before[LastOp.key] # Absent
     /\ LastOp.at >= LastOp.before[LastOp.key].time
                        + ApplicableTTL(LastOp.key, LastOp.ovr))
        => LastOp.result = None

\* C8 witness: an entry is read with an override (60 s) after the override
\* has elapsed and before the table's TTL (300 s) has, and the read misses.
C8_Witness ==
    /\ hist # <<>>
    /\ LastOp.op = "get"
    /\ LastOp.ovr # 0
    /\ LastOp.before[LastOp.key] # Absent
    /\ LastOp.at - LastOp.before[LastOp.key].time >= LastOp.ovr
    /\ LastOp.at - LastOp.before[LastOp.key].time < TableTTL(LastOp.key)
    /\ LastOp.result = None

\* C9: prefix invalidation.  After cache_clear(prefix) exactly the keys that
\* start with prefix are gone and every other key has the entry (value and
\* stored time) it had before; cache_clear() without prefix leaves no key.
C9_PrefixClear ==
    (hist # <<>> /\ LastOp.op = "clear") =>
        \A k \in Keys :
            /\ (LastOp.prefix = <<>> \/ StartsWith(k, LastOp.prefix))
                  => _cache[k] = Absent
            /\ (LastOp.prefix # <<>> /\ ~StartsWith(k, LastOp.prefix))
                  => _cache[k] = LastOp.before[k]

\* C9 witness: cache_clear("live_") has removed both live_positions entries
\* and kept the _fallback_resolved entry.
C9_Witness ==
    /\ hist # <<>>
    /\ LastOp.op = "clear"
    /\ LastOp.prefix = <<"live_">>
    /\ LastOp.before[K_pos_latest] # Absent
    /\ LastOp.before[K_pos_demo] # Absent
    /\ _cache[K_pos_latest] = Absent
    /\ _cache[K_pos_demo] = Absent
    /\ _cache[K_fallback] # Absent

------------------------------------------------------------------------------
\* A resolution has just returned that found no override and no cached
\* resolution and whose "latest" query was answered with a session.
LatestAnswered == res_ret.path = "latest" /\ res_ret.ok

\* C10 (as stated): with no override and no cached resolution, when the
\* "latest" query returns session S, the resolver returns ("latest", live)
\* if and only if S.start <= now <= S.end + 30 minutes, and otherwise returns
\* S's own session id as the key in demo mode; missing or unparsable dates
\* count as not live.
C10_ModeSelection ==
    LatestAnswered =>
        IF WindowCovers(res_ret.session, res_ret.at)
        THEN res_ret.key = "latest" /\ ~res_ret.is_demo
        ELSE /\ res_ret.key = StrOfInt(res_ret.session.session_key)
             /\ res_ret.is_demo

\* C10 (amended): as above, but outside the window the key is S's own
\* session id only when S carries one; for a session without an id the
\* resolver returns the hardcoded most recent known race, in demo mode.
C10_ModeSelectionWithId ==
    LatestAnswered =>
        IF WindowCovers(res_ret.session, res_ret.at)
        THEN res_ret.key = "latest" /\ ~res_ret.is_demo
        ELSE /\ res_ret.is_demo
             /\ res_ret.key = IF res_ret.session.session_key # 0
                              THEN StrOfInt(res_ret.session.session_key)
                              ELSE StrOfInt(HardcodedKey)

\* A session that is over for more than 30 minutes resolves to its own id.
C10_Witness ==
    /\ LatestAnswered
    /\ res_ret.session.date_end.fmt \in {"Z", "+00:00"}
    /\ res_ret.session.date_start.fmt \in {"Z", "+00:00"}
    /\ res_ret.at > res_ret.session.date_end.t + 30 * 60
    /\ res_ret.session.session_key # 0
    /\ res_ret.key = StrOfInt(res_ret.session.session_key)
    /\ res_ret.is_demo

------------------------------------------------------------------------------
------------------------------------------------------------------------------
\* The upstream's answer and its liveness are those of the remembered
\* automatic resolution.
SameAnswer ==
    /\ res_ret.ok = trip.ok
    /\ WindowCovers(res_ret.session, res_ret.at) = trip.live

\* C12: after the resolver resolved automatically to (key, mode), an override
\* was set and then cleared (None or a sentinel), a resolution that starts
\* takes the automatic branch again, and the resolution computed next returns
\* the same (key, mode) when the upstream's answer and its liveness are the
\* same.
C12_RoundTrip ==
    /\ []((trip.phase = "cleared" /\ res_ret.path = "latest" /\ SameAnswer)
            => (res_ret.key = trip.key /\ res_ret.is_demo = trip.is_demo))
    /\ [][\A r \in ResTasks :
            (ResStart(r) /\ trip.phase = "cleared") =>
                (res_pc'[r] = "fetch_latest" \/ res_ret'.path = "cached")]_vars

\* A live resolution, an override set and cleared, and a live resolution
\* again.
C12_Witness ==
    /\ trip.phase = "cleared"
    /\ res_ret.path = "latest"
    /\ SameAnswer
    /\ trip.live
    /\ trip.key = "latest"
    /\ res_ret.key = "latest"
    /\ ~res_ret.is_demo

------------------------------------------------------------------------------
\* The key belongs to the resolver's or to a live view's cache.
Invalidated(k) == k[1] \in {"_fallback", "live_"}

\* C13: when set_demo_session returns (setting or clearing) the cache holds
\* no key starting with "_fallback" and none starting with "live_", every
\* other key is as it was, and a resolution that starts with no override on
\* the cache so left asks the upstream instead of returning a cached
\* resolution.
C13_SetInvalidates ==
    /\ [][\A k \in LiveSetInputs :
            SetDemoSession(k) =>
                \A key \in Keys :
                    IF Invalidated(key) THEN _cache'[key] = Absent
                    ELSE _cache'[key] = _cache[key]]_vars
    /\ [][(ResStart(LvTask) /\ _demo_override_key = "None"
            /\ \A key \in Keys : Invalidated(key) => _cache[key] = Absent)
            => res_pc'[LvTask] = "fetch_latest"]_vars

\* The override has been set, used by a request and cleared again: its
\* metadata is still cached, no resolution and no live view is.
C13_Witness ==
    /\ _demo_override_key = "None"
    /\ lv_n > 0
    /\ _cache[K_demo_info("9839")] # Absent
    /\ \A key \in Keys : Invalidated(key) => _cache[key] = Absent

------------------------------------------------------------------------------
\* C14: with no override set and no invalidation in between, two "latest"
\* queries are never sent to the upstream less than 60 seconds apart, however
\* many resolutions are requested and whether or not they overlap.
C14_OneQueryPer60s ==
    Len(q_sent) = 2 => q_sent[2] - q_sent[1] >= ResolvedTTL

------------------------------------------------------------------------------
\* C15: a resolution whose "latest" query fails, or is answered with a session
\* that has no id and is not live, returns the hardcoded most recent known
\* race in demo mode; and every resolution returns a non-empty session key
\* ("None" stands for Python's None).
C15_NeverWithoutSession ==
    res_ret # NoRes =>
        /\ res_ret.key \notin {"None", ""}
        /\ (res_ret.path = "latest" /\ ~res_ret.ok) =>
                (res_ret.key = StrOfInt(HardcodedKey) /\ res_ret.is_demo)
        /\ (/\ res_ret.path = "latest"
            /\ res_ret.ok
            /\ res_ret.session.session_key = 0
            /\ ~WindowCovers(res_ret.session, res_ret.at)) =>
                (res_ret.key = StrOfInt(HardcodedKey) /\ res_ret.is_demo)

------------------------------------------------------------------------------
\* C16: whenever the resolver reports demo mode for a request, every view
\* returned for it, standalone or part of the combined dashboard, fetched,
\* cached or empty, carries is_demo = true.
C16_DemoTagged ==
    (lv_ret # NoView /\ lv_ret.resolved_demo) =>
        \A c \in DOMAIN lv_ret.parts : lv_ret.parts[c].out.is_demo

------------------------------------------------------------------------------
\* C17: a live view reads its cache with the 300 s override exactly when the
\* resolved session is demo; in live mode it passes none, and a view served
\* from the cache in live mode is younger than the table's TTL of its
\* category.
C17_TTLByMode ==
    lv_ret # NoView =>
        \A c \in DOMAIN lv_ret.parts :
            /\ (lv_ret.parts[c].ovr = 300) <=> lv_ret.resolved_demo
            /\ lv_ret.parts[c].ovr \in {0, 300}
            /\ (~lv_ret.resolved_demo /\ lv_ret.parts[c].src = "cache") =>
                    lv_ret.parts[c].age < CACHE_TTL[<<"live_", c>>]

------------------------------------------------------------------------------
\* The records of driver dn in the upstream's answer whose timestamp string
\* no record of dn exceeds.
NewestOf(dn) ==
    {i \in 1..Len(positions_raw) :
        /\ positions_raw[i].driver_number = dn
        /\ \A j \in 1..Len(positions_raw) :
              positions_raw[j].driver_number = dn =>
                  ~LexLess(positions_raw[i].date, positions_raw[j].date)}

DriversReceived ==
    {positions_raw[i].driver_number : i \in 1..Len(positions_raw)} \ {0}

\* The merged view lists exactly the drivers received, each once.
EachDriverOnce ==
    /\ \A i, j \in 1..Len(m_result) :
          m_result[i].driver_number = m_result[j].driver_number => i = j
    /\ {m_result[i].driver_number : i \in 1..Len(m_result)} = DriversReceived

\* C18 (as stated): the merged view has each driver at most once and reports
\* for each driver the position of its record with the greatest timestamp
\* string, whatever the order of the records.
C18_NewestPerDriver ==
    m_result # NoResult =>
        /\ EachDriverOnce
        /\ \A k \in 1..Len(m_result) :
              \A i \in NewestOf(m_result[k].driver_number) :
                  m_result[k].position = positions_raw[i].position

\* C18 (amended): as above, and when several records of a driver carry the
\* greatest timestamp string (or none carries a date) the view reports the
\* one of them that arrived first.
C18_NewestFirstArrived ==
    m_result # NoResult =>
        /\ EachDriverOnce
        /\ \A k \in 1..Len(m_result) :
              LET newest == NewestOf(m_result[k].driver_number)
                  first == CHOOSE i \in newest : \A j \in newest : i <= j
              IN  m_result[k].position = positions_raw[first].position

\* Drivers 1 and 44, and the newest record of driver 1 arrives before an
\* older one: the view reports the newest.
C18_Witness ==
    /\ m_result # NoResult
    /\ DriversReceived = {1, 44}
    /\ Len(positions_raw) = 3
    /\ positions_raw[1].driver_number = 1
    /\ positions_raw[3].driver_number = 1
    /\ LexLess(positions_raw[3].date, positions_raw[1].date)
    /\ positions_raw[1].position # positions_raw[3].position
    /\ \E k \in 1..Len(m_result) :
          /\ m_result[k].driver_number = 1
          /\ m_result[k].position = positions_raw[1].position

------------------------------------------------------------------------------
(* C19: track outline served from cache on the second request.              *)

\* Calls i and i+1 returned one after the other, neither overlapping
\* another call, and call i returned an outline.
Successive(i) ==
    /\ i \in 1..(Len(o_hist) - 1)
    /\ ~o_hist[i].overlapped
    /\ ~o_hist[i + 1].overlapped
    /\ o_hist[i].ok

ServedFromCache(call) == call.src \in {"memory", "disk"} /\ call.loc = 0

------------------------------------------------------------------------------
(* C20: track outline computed at most once per session id.                 *)

\* C20: over any interleaving of outline requests for one session id, the
\* location endpoint is fetched at most once and the file is written at most
\* once.
C20_ComputedOnce == o_loc <= 1 /\ o_writes <= 1

------------------------------------------------------------------------------
(* C21: degradation, insufficient points.                                   *)

StintReported == d_pc = "done" /\ d_result # NoStint

LapNumbersOf(lap_data) == {lap_data[i].lap : i \in 1..Len(lap_data)}

------------------------------------------------------------------------------
(* C22: degradation, outlier filter.                                        *)

\* m is the median the code takes of the clean laps' times: the element at
\* index len // 2 of the sorted times, told by counting.
IsMedianOf(m, clean_laps) ==
    LET n == Len(clean_laps)
        below == Cardinality({i \in 1..n : clean_laps[i].time < m})
        upto == Cardinality({i \in 1..n : clean_laps[i].time <= m})
    IN  /\ \E i \in 1..n : clean_laps[i].time = m
        /\ below <= n \div 2
        /\ upto >= (n \div 2) + 1

\* time exceeds 110% of m.
Exceeds110(time, m) == 10 * time > 11 * m

Filtering == d_pc \in {"fit", "done"} /\ Len(d_clean) >= 2

------------------------------------------------------------------------------
(* C23: degradation, slope sign.                                            *)

\* The raw times of the stint's laps rise with the lap number.
RawTimesRise(stint_laps) ==
    \A i \in 1..(Len(stint_laps) - 1) :
        /\ stint_laps[i].lap < stint_laps[i + 1].lap
        /\ stint_laps[i].time < stint_laps[i + 1].time

SlopePositive ==
    /\ d_result.slope # NoReg
    /\ d_result.slope.denom > 0
    /\ d_result.slope.num > 0
    /\ d_result.deg_rate.e4 > 0

\* C23 as stated: every reported stint of at least 3 laps whose raw times
\* rise with the lap number has a slope fitted on the fuel-corrected times,
\* and the slope is strictly positive.
C23_SlopePositive ==
    LET stint_laps == StintLaps(d_laps, d_stint, d_total)
    IN  /\ StintReported
        /\ Len(stint_laps) >= 3
        /\ RawTimesRise(stint_laps)
        => SlopePositive

\* C23 amended: for a stint of at least 3 laps whose raw times rise with the
\* lap number and of which at least 3 laps remain after the pit-out laps and
\* the laps above 110% of the median are dropped, the slope fitted on the
\* fuel-corrected times is strictly positive, and so is the reported
\* degradation rate; with fewer laps remaining no slope is reported.
C23_SlopePositiveWhenFitted ==
    LET stint_laps == StintLaps(d_laps, d_stint, d_total)
    IN  /\ StintReported
        /\ Len(stint_laps) >= 3
        /\ RawTimesRise(stint_laps)
        => IF Len(d_result.laps) >= 3
           THEN SlopePositive
           ELSE d_result.slope = NoReg /\ d_result.deg_rate = NoRate

\* The laps (1, 90.0), (2, 90.3), (3, 90.6), (4, 90.9) with 4 total laps were
\* fitted: 0.33 s per lap.
C23_Witness ==
    /\ StintReported
    /\ d_total = 4
    /\ Len(d_result.laps) = 4
    /\ \A i \in 1..4 : d_result.laps[i].lap = i
                       /\ d_result.laps[i].raw_time = 90000 + 300 * (i - 1)
    /\ d_result.deg_rate = [kind |-> "rate", e4 |-> 3300]

------------------------------------------------------------------------------
(* C24: dashboard tyre age.                                                 *)

DashboardDone == e_pc = "done" /\ e_built # <<>>

\* The driver of the record has a timing record with a lap number.
HasCurrentLap(p) ==
    /\ DOMAIN e_timing # {}
    /\ p.driver_number \in DOMAIN e_timing
    /\ e_timing[p.driver_number] # 0

\* C24: in the combined dashboard, a position record whose derived tyre age
\* (the one get_live_positions computes from the stint) is 0, whose stint
\* start lap is known and whose driver has a timing record with a lap number
\* reports currentLap - stintStartLap, or 0 when that is negative; a record
\* with a non-zero derived tyre age keeps it.
C24_TyreAge ==
    DashboardDone =>
        \A i \in 1..Len(e_built) :
            LET p == e_built[i]
                q == e_positions[i]
            IN  /\ q.driver_number = p.driver_number
                /\ (p.tyre_age = 0 /\ p._stint_lap_start # 0
                    /\ HasCurrentLap(p)) =>
                      LET age == e_timing[p.driver_number]
                                     - p._stint_lap_start
                      IN  q.tyre_age = IF age < 0 THEN 0 ELSE age
                /\ p.tyre_age # 0 => q.tyre_age = p.tyre_age

------------------------------------------------------------------------------
(* C25: one token per request to the historical provider.                   *)

\* C25: every GET of a fetch_ergast call is preceded by its own completed
\* acquire(): at every moment the call has sent no more GETs than it has
\* acquired tokens.
C25_TokenPerGet ==
    \A p \in Tasks : f_kind[p] = "ergast" => f_gets[p] <= f_acq[p]

------------------------------------------------------------------------------
(* C26: resolution is atomic with respect to override changes.              *)

\* Task r, suspended on the override's fetch for key K = res_req[r], returns
\* in this step.
OverrideCallReturns(r) ==
    /\ res_pc[r] = "fetch_override"
    /\ res_pc'[r] = "idle"

\* C26: a get_fallback_session_key call that took the override branch with
\* override K returns the key K (never None) with the metadata of K, and
\* stores metadata under demo_info:K and nowhere else, whatever
\* set_demo_session did while the call was suspended.
C26_AtomicResolution ==
    [][\A r \in ResTasks :
          OverrideCallReturns(r) =>
              /\ res_req[r] # "None"
              /\ res_ret'.key = res_req[r]
              /\ res_ret'.is_demo
              /\ res_ret'.info.session_key = IntOfStr(res_req[r]).n
              /\ _cache'[K_demo_info(res_req[r])] # Absent
              /\ \A k \in Keys \ {K_demo_info(res_req[r])} :
                    _cache'[k] = _cache[k]]_vars

------------------------------------------------------------------------------
(* C27: backoff schedule.                                                   *)

\* C27: the sleep after a 429 on attempt a lasts min(delay * 2^a, 10)
\* seconds, and the sleep before the retry after another non-200 status or a
\* network error on attempt a lasts delay * (a + 1) seconds.
C27_BackoffSchedule ==
    \A p \in Tasks :
        /\ f_pc[p] = "sleep429" =>
              f_wait[p] = IF RetryDelay * (2 ^ f_attempt[p]) < 10
                          THEN RetryDelay * (2 ^ f_attempt[p]) ELSE 10
        /\ f_pc[p] = "sleep" => f_wait[p] = RetryDelay * (f_attempt[p] + 1)

------------------------------------------------------------------------------
(* C28: the weather view reports the most recent record by timestamp.       *)

\* No record of the list has a later date than record i.
IsMostRecent(data, i) ==
    \A j \in 1..Len(data) : ~LexLess(data[i].date, data[j].date)

\* C28: for every list of weather records, in any order, the view is built
\* from a record with the greatest date of the list.
C28_MostRecentWeather ==
    (w_pc = "done" /\ w_data # <<>>) =>
        \E i \in 1..Len(w_data) :
            /\ IsMostRecent(w_data, i)
            /\ w_response = [kind |-> "weather",
                             air_temperature |-> w_data[i].air_temperature]

------------------------------------------------------------------------------
(* C29: failure does not touch the cache.                                   *)

\* In this step the primary fetch of the view of category cat returns the
\* failure sentinel: the standalone view, or a sub-view of the dashboard.
FetchFails(cat) ==
    \/ /\ lv.pc = "fetching"
       /\ lv.cat = cat
       /\ lv_ret' # NoView
       /\ lv_ret'.parts[cat].src = "empty"
    \/ /\ lv.pc = "gathering"
       /\ lv.parts[cat].st = "pending"
       /\ lv'.pc = "gathering"
       /\ lv'.parts[cat].src = "empty"

\* The view of category cat as its request hands it back after this step.
ViewAfter(cat) ==
    IF lv.pc = "fetching" THEN lv_ret'.parts[cat].out ELSE lv'.parts[cat].out

\* In this step the fetch of the view behind cache key k succeeds.
FetchSucceeds(k) ==
    \E cat \in LiveCats :
        /\ lv.pc \in {"fetching", "gathering"}
        /\ k = K_live(cat, lv.key)
        /\ \/ lv.pc = "fetching" /\ lv.cat = cat /\ lv_ret' # NoView
              /\ lv_ret'.parts[cat].src = "fetch"
           \/ lv.pc = "gathering" /\ lv.parts[cat].st = "pending"
              /\ lv'.pc = "gathering" /\ lv'.parts[cat].src = "fetch"

\* C29: when the primary fetch of a live view returns the failure sentinel,
\* the view returns its empty shape and the cache is left as it was; and an
\* entry of a live view is created, or written anew, only in a step in which
\* the fetch of that view succeeds.
C29_FailureLeavesCache ==
    [][/\ \A cat \in LiveCats :
             FetchFails(cat) =>
                 /\ ViewAfter(cat).empty
                 /\ ViewAfter(cat).cat = cat
                 /\ _cache' = _cache
       /\ \A cat \in LiveCats : \A key \in LiveKeys :
             LET k == K_live(cat, key)
             IN  (/\ _cache'[k] # Absent
                  /\ _cache[k] # Absent => _cache'[k].time # _cache[k].time)
                     => FetchSucceeds(k)]_vars

\* A view whose entry had expired failed to fetch: it returned its empty
\* shape and the expired entry is still in the cache.
C29_Witness ==
    /\ lv_ret # NoView
    /\ lv_ret.kind = "view"
    /\ \E cat \in LiveCats :
          /\ cat \in DOMAIN lv_ret.parts
          /\ lv_ret.parts[cat].src = "empty"
          /\ lv_ret.parts[cat].out.empty
          /\ _cache[K_live(cat, lv_ret.key)] # Absent

------------------------------------------------------------------------------
(* C30: outline size bound.                                                 *)

\* C30: whatever number of location samples the upstream returns, the
\* outline that is cached and the one that is written to disk have at least
\* 20 and never more than 250 points.
C30_OutlineSize ==
    /\ _cache[K_outline] # Absent =>
          /\ _cache[K_outline].data.points >= 20
          /\ _cache[K_outline].data.points <= 250
    /\ o_disk.state = "good" =>
          /\ o_disk.points >= 20
          /\ o_disk.points <= 250

==============================================================================
